---- MODULE Spec2Model ----
(***************************************************************************)
(* Block-cipher toolkit: PKCS#7 padding, the raw modes of operation, the   *)
(* cipher facades, the AES engine and the Twofish key normalisation.       *)
(* Byte arrays are sequences of 0..255; the source's index i is i + 1.     *)
(***************************************************************************)
EXTENDS Integers, Sequences, FiniteSets, TLC

VARIABLES
    pc,         \* position of the driver of the specification in use
    padFn,      \* padding layer: the function called last
    padData,    \* padding layer: the caller's data
    padBs,      \* padding layer: blockSize argument
    padded,     \* padding layer: result of the pad call
    unpadded,   \* padding layer: result of the unpad call
    tfKey,      \* Twofish: the key handed to makeSession
    tfSession,  \* Twofish: what makeSession derived from it
    cipher,     \* mode layer: the BlockCipher engine
    fn,         \* mode layer: the mode function being run
    modeData,   \* mode layer: its data argument
    iv,         \* mode layer: its iv / counter argument
    segmentSize,\* mode layer: its segmentSize argument (CFB)
    loc,        \* mode layer: the locals of the running call (i, out, reg, ks, idx)
    ret,        \* mode layer: what the last call returned or threw
    first,      \* mode layer: the first call of the run: its function, data and result
    regTrace,   \* mode layer: the register after each iteration of the running call
    outArg,     \* mode layer: the caller's out argument (in-place functions)
    given,      \* mode layer: the caller's buffers as they were when the call began
    aesKey,     \* AES: the key handed to new AESRaw
    aesEngine,  \* AES: the constructed engine, or what the constructor threw
    aesIn,      \* AES: the block handed to encryptBlock
    aesOut,     \* AES: the block written by the last encryptBlock / decryptBlock
    facArgs,    \* facade: the class, key and options of the constructor call
    facade,     \* facade: the constructed cipher, or what the constructor threw
    facPlain,   \* facade: the plaintext handed to encrypt
    facEncrypted, \* facade: what encrypt returned or threw
    facDecrypted, \* facade: what decrypt returned or threw
    bfP,        \* Blowfish: this.P, 18 words
    bfS,        \* Blowfish: this.S, 4 boxes of 256 words
    bfIn,       \* Blowfish: the words (L, R) handed to encBlockWords
    bfOut,      \* Blowfish: what the last encBlockWords / decBlockWords returned
    tfSBox,     \* Twofish: the sBox table of the session, 1024 words
    tfSKey,     \* Twofish: the sKey table of the session, 40 words
    tfIn,       \* Twofish: the 16-byte block handed to encrypt
    tfOut,      \* Twofish: what the last encrypt / decrypt wrote or threw
    engBuilt,   \* engines: the schedule as the constructor left it
    engLog,     \* engines: the block methods called since, in order
    newClass,   \* construction: the engine class being constructed
    newKey,     \* construction: the key handed to the constructor
    newLoc,     \* construction: the locals of the running constructor
    newLog,     \* construction: what the running constructor has done, in order
    newBuilt,   \* construction: the engines constructed so far, key and schedule
    bfConst,    \* module level: the tables P, S0 .. S3 of utils/constants.ts
    tfMod,      \* module level: Twofish's subKeyWord and the tables P0, P1, MDS0 .. MDS3
    strArgs,    \* streaming: the class, engine, iv / counter, data and split in use
    strObj,     \* streaming: the mode object the parts are fed to
    strTrace,   \* streaming: the fields of that object before and after each call
    strRets,    \* streaming: what each encrypt on that object returned or threw
    strWhole,   \* streaming: what encrypt(A || B) on a fresh object returned or threw
    inbox,      \* server: the inbox array
    seenIds,    \* server: the set of ids already taken in
    clients,    \* server: the WebSocket clients connected
    srvNow,     \* server: Date.now()
    posts,      \* server: the deliveries to POST /message so far and what became of each
    wsUp,       \* WebSocket: the frames from the client not yet handled by the server
    wsDown,     \* WebSocket: the frames from the server not yet handled by the client
    cliState,   \* client: the state object of app.js, and the socket's readiness
    refreshes,  \* client: the clicks on refresh so far
    rpcState,   \* rpc: connected, pending, the timers armed, and how each promise settled
    rpcUp,      \* rpc: the requests sent and not yet answered
    rpcDown,    \* rpc: the responses sent and not yet handled
    rpcLast     \* rpc: the handler that ran last, and on what

padVars == <<padFn, padData, padBs, padded, unpadded>>
tfVars == <<tfKey, tfSession>>
modeVars ==
    <<cipher, fn, modeData, iv, segmentSize, loc, ret, first, regTrace, outArg, given>>
aesVars == <<aesKey, aesEngine, aesIn, aesOut>>
facVars == <<facArgs, facade, facPlain, facEncrypted, facDecrypted>>
bfVars == <<bfP, bfS, bfIn, bfOut>>
tfbVars == <<tfSBox, tfSKey, tfIn, tfOut>>
engVars == <<engBuilt, engLog>>
\* the variables of the layers further down
newVars == <<newClass, newKey, newLoc, newLog, newBuilt, bfConst, tfMod>>
strVars == <<strArgs, strObj, strTrace, strRets, strWhole>>
msgVars == <<inbox, seenIds, clients, srvNow, posts, wsUp, wsDown, cliState, refreshes>>
rpcVars == <<rpcState, rpcUp, rpcDown, rpcLast>>
lateVars == <<strVars, msgVars, rpcVars>>
restVars == <<engVars, newVars, lateVars>>
vars == <<pc, padVars, tfVars, modeVars, aesVars, facVars, bfVars, tfbVars, restVars>>

\* ------------------------------------------------------------------ results
\* A call either returns a value or throws new Error(message).
Ok(v) == [ok |-> TRUE, val |-> v, err |-> ""]
Throw(m) == [ok |-> FALSE, val |-> <<>>, err |-> m]
NoResult == [ok |-> FALSE, val |-> <<>>, err |-> "not called"]

\* ------------------------------------------------------------------ bytes
Byte == 0..255

\* n copies of the byte b (Uint8Array.fill over a fresh range)
Run(n, b) == [i \in 1..n |-> b]

\* data.subarray(from, to) / slice(from, to) with 0-based, end-exclusive indices
Sub(s, from, to) == IF to <= from THEN <<>> ELSE SubSeq(s, from + 1, to)

Last(s) == s[Len(s)]

\* the key of length n whose byte i is (a + i * d) mod 256
PatternKey(n, pat) == [i \in 1..n |-> (pat[1] + (i - 1) * pat[2]) % 256]

\* ------------------------------------------------------------- bit operations
RECURSIVE Xor(_, _)
\* a ^ b on non-negative integers
Xor(a, b) ==
    IF a = 0 THEN b
    ELSE IF b = 0 THEN a
    ELSE ((a + b) % 2) + 2 * Xor(a \div 2, b \div 2)

RECURSIVE And(_, _)
\* a & b on non-negative integers
And(a, b) ==
    IF a = 0 \/ b = 0 THEN 0
    ELSE ((a % 2) * (b % 2)) + 2 * And(a \div 2, b \div 2)

Or(a, b) == a + b - And(a, b)

\* A 32-bit word is the tuple of its four bytes, most significant first:
\* <<w >>> 24, (w >>> 16) & 0xff, (w >>> 8) & 0xff, w & 0xff>>.
Word == Byte \X Byte \X Byte \X Byte
WZero == <<0, 0, 0, 0>>
WXor(x, y) == <<Xor(x[1], y[1]), Xor(x[2], y[2]), Xor(x[3], y[3]), Xor(x[4], y[4])>>
\* (w << 8) truncated to 32 bits
WShl8(w) == <<w[2], w[3], w[4], 0>>

\* ------------------------------------------------------------- AES tables
\* forward S-box, 0-based index i at position i + 1
S ==
    <<
       99, 124, 119, 123, 242, 107, 111, 197, 48, 1, 103, 43, 254, 215, 171, 118,
       202, 130, 201, 125, 250, 89, 71, 240, 173, 212, 162, 175, 156, 164, 114, 192,
       183, 253, 147, 38, 54, 63, 247, 204, 52, 165, 229, 241, 113, 216, 49, 21,
       4, 199, 35, 195, 24, 150, 5, 154, 7, 18, 128, 226, 235, 39, 178, 117,
       9, 131, 44, 26, 27, 110, 90, 160, 82, 59, 214, 179, 41, 227, 47, 132,
       83, 209, 0, 237, 32, 252, 177, 91, 106, 203, 190, 57, 74, 76, 88, 207,
       208, 239, 170, 251, 67, 77, 51, 133, 69, 249, 2, 127, 80, 60, 159, 168,
       81, 163, 64, 143, 146, 157, 56, 245, 188, 182, 218, 33, 16, 255, 243, 210,
       205, 12, 19, 236, 95, 151, 68, 23, 196, 167, 126, 61, 100, 93, 25, 115,
       96, 129, 79, 220, 34, 42, 144, 136, 70, 238, 184, 20, 222, 94, 11, 219,
       224, 50, 58, 10, 73, 6, 36, 92, 194, 211, 172, 98, 145, 149, 228, 121,
       231, 200, 55, 109, 141, 213, 78, 169, 108, 86, 244, 234, 101, 122, 174, 8,
       186, 120, 37, 46, 28, 166, 180, 198, 232, 221, 116, 31, 75, 189, 139, 138,
       112, 62, 181, 102, 72, 3, 246, 14, 97, 53, 87, 185, 134, 193, 29, 158,
       225, 248, 152, 17, 105, 217, 142, 148, 155, 30, 135, 233, 206, 85, 40, 223,
       140, 161, 137, 13, 191, 230, 66, 104, 65, 153, 45, 15, 176, 84, 187, 22
    >>

\* inverse S-box
Si ==
    <<
       82, 9, 106, 213, 48, 54, 165, 56, 191, 64, 163, 158, 129, 243, 215, 251,
       124, 227, 57, 130, 155, 47, 255, 135, 52, 142, 67, 68, 196, 222, 233, 203,
       84, 123, 148, 50, 166, 194, 35, 61, 238, 76, 149, 11, 66, 250, 195, 78,
       8, 46, 161, 102, 40, 217, 36, 178, 118, 91, 162, 73, 109, 139, 209, 37,
       114, 248, 246, 100, 134, 104, 152, 22, 212, 164, 92, 204, 93, 101, 182, 146,
       108, 112, 72, 80, 253, 237, 185, 218, 94, 21, 70, 87, 167, 141, 157, 132,
       144, 216, 171, 0, 140, 188, 211, 10, 247, 228, 88, 5, 184, 179, 69, 6,
       208, 44, 30, 143, 202, 63, 15, 2, 193, 175, 189, 3, 1, 19, 138, 107,
       58, 145, 17, 65, 79, 103, 220, 234, 151, 242, 207, 206, 240, 180, 230, 115,
       150, 172, 116, 34, 231, 173, 53, 133, 226, 249, 55, 232, 28, 117, 223, 110,
       71, 241, 26, 113, 29, 41, 197, 137, 111, 183, 98, 14, 170, 24, 190, 27,
       252, 86, 62, 75, 198, 210, 121, 32, 154, 219, 192, 254, 120, 205, 90, 244,
       31, 221, 168, 51, 136, 7, 199, 49, 177, 18, 16, 89, 39, 128, 236, 95,
       96, 81, 127, 169, 25, 181, 74, 13, 45, 229, 122, 159, 147, 201, 156, 239,
       160, 224, 59, 77, 174, 42, 245, 176, 200, 235, 187, 60, 131, 83, 153, 97,
       23, 43, 4, 126, 186, 119, 214, 38, 225, 105, 20, 99, 85, 33, 12, 125
    >>

\* round constants
RCON ==
    <<
       1, 2, 4, 8, 16, 32, 64, 128, 27, 54, 108, 216, 171, 77, 154, 47,
       94, 188, 99, 198, 151, 53, 106, 212, 179, 125, 250, 239, 197, 145
    >>

\* ---------------------------------------------------------------- AES core
RECURSIVE gfMulLoop(_, _, _, _)
\* the 8 iterations of gfMul's loop: p, a, b after i iterations
gfMulLoop(p, a, b, i) ==
    IF i = 8 THEN p
    ELSE LET p1 == IF b % 2 = 1 THEN Xor(p, a) ELSE p
             hi == And(a, 128)
             a1 == (a * 2) % 256
             a2 == IF hi # 0 THEN Xor(a1, 27) ELSE a1
         IN  gfMulLoop(p1, a2, b \div 2, i + 1)

gfMul(a, b) == gfMulLoop(0, a, b, 0) % 256

subWord(x) == <<S[x[1] + 1], S[x[2] + 1], S[x[3] + 1], S[x[4] + 1]>>
rotWord(x) == <<x[2], x[3], x[4], x[1]>>

RECURSIVE expandWords(_, _, _, _, _)
\* the expansion loop of expandKey: w holds words 0..i-1
expandWords(w, i, rconIdx, Nk, totalWords) ==
    IF i >= totalWords THEN w
    ELSE LET prev == w[i]
             temp == IF i % Nk = 0
                     THEN WXor(subWord(rotWord(prev)), <<RCON[rconIdx + 1], 0, 0, 0>>)
                     ELSE IF Nk > 6 /\ i % Nk = 4 THEN subWord(prev)
                     ELSE prev
             next == WXor(w[i - Nk + 1], temp)
         IN  expandWords(Append(w, next), i + 1,
                         IF i % Nk = 0 THEN rconIdx + 1 ELSE rconIdx, Nk, totalWords)

\* expandKey: Nr + 1 round-key blocks, each the big-endian bytes of 4 words
expandKey(key, Nk, Nr) ==
    LET totalWords == 4 * (Nr + 1)
        w0 == [i \in 1..Nk |-> <<key[4 * i - 3], key[4 * i - 2], key[4 * i - 1], key[4 * i]>>]
        w == expandWords(w0, Nk, 0, Nk, totalWords)
    IN  [r \in 1..(Nr + 1) |->
            w[4 * r - 3] \o w[4 * r - 2] \o w[4 * r - 1] \o w[4 * r]]

\* new AESRaw(key) accepting every key of 16 bytes or more
AESRawAtLeast16(key) ==
    LET len == Len(key)
    IN  IF len < 16
        THEN Throw("AES key must be 16/24/32 bytes")
        ELSE Ok([kind |-> "AES",
                 blockSize |-> 16,
                 Nr |-> (len \div 4) + 6,
                 roundKeys |-> expandKey(key, len \div 4, (len \div 4) + 6)])

\* new AESRaw(key)
AESRaw(key) ==
    LET len == Len(key)
    IN  IF len # 16 /\ len # 24 /\ len # 32
        THEN Throw("AES key must be 16/24/32 bytes")
        ELSE Ok([kind |-> "AES",
                 blockSize |-> 16,
                 Nr |-> (len \div 4) + 6,
                 roundKeys |-> expandKey(key, len \div 4, (len \div 4) + 6)])

\* the 16-byte state whose byte i (1-based) is F(i)
State16(F(_)) ==
    <<F(1), F(2), F(3), F(4), F(5), F(6), F(7), F(8),
      F(9), F(10), F(11), F(12), F(13), F(14), F(15), F(16)>>

addRoundKey(aes, state, round) ==
    State16(LAMBDA i : Xor(state[i], aes.roundKeys[round + 1][i]))
subBytes(state) == State16(LAMBDA i : S[state[i] + 1])
invSubBytes(state) == State16(LAMBDA i : Si[state[i] + 1])

\* shiftRows / invShiftRows as the source index each state[i] is loaded from
ShiftRowsFrom == <<0, 5, 10, 15, 4, 9, 14, 3, 8, 13, 2, 7, 12, 1, 6, 11>>
InvShiftRowsFrom == <<0, 13, 10, 7, 4, 1, 14, 11, 8, 5, 2, 15, 12, 9, 6, 3>>
\* shiftRows leaving every row where it is
shiftRowsNoShift(state) == state

shiftRows(state) == State16(LAMBDA i : state[ShiftRowsFrom[i] + 1])

invShiftRows(state) == State16(LAMBDA i : state[InvShiftRowsFrom[i] + 1])

Xor4(a, b, c, d) == Xor(Xor(a, b), Xor(c, d))

mixColumns(state) ==
    State16(LAMBDA i :
        LET c == ((i - 1) \div 4) * 4
            a0 == state[c + 1]
            a1 == state[c + 2]
            a2 == state[c + 3]
            a3 == state[c + 4]
        IN  CASE (i - 1) % 4 = 0 -> Xor4(gfMul(a0, 2), gfMul(a1, 3), a2, a3)
              [] (i - 1) % 4 = 1 -> Xor4(a0, gfMul(a1, 2), gfMul(a2, 3), a3)
              [] (i - 1) % 4 = 2 -> Xor4(a0, a1, gfMul(a2, 2), gfMul(a3, 3))
              [] OTHER -> Xor4(gfMul(a0, 3), a1, a2, gfMul(a3, 2)))

\* invMixColumns multiplying by the forward matrix {2, 3, 1, 1}
invMixColumnsForward(state) == mixColumns(state)

invMixColumns(state) ==
    State16(LAMBDA i :
        LET c == ((i - 1) \div 4) * 4
            a0 == state[c + 1]
            a1 == state[c + 2]
            a2 == state[c + 3]
            a3 == state[c + 4]
        IN  CASE (i - 1) % 4 = 0 ->
                    Xor4(gfMul(a0, 14), gfMul(a1, 11), gfMul(a2, 13), gfMul(a3, 9))
              [] (i - 1) % 4 = 1 ->
                    Xor4(gfMul(a0, 9), gfMul(a1, 14), gfMul(a2, 11), gfMul(a3, 13))
              [] (i - 1) % 4 = 2 ->
                    Xor4(gfMul(a0, 13), gfMul(a1, 9), gfMul(a2, 14), gfMul(a3, 11))
              [] OTHER ->
                    Xor4(gfMul(a0, 11), gfMul(a1, 13), gfMul(a2, 9), gfMul(a3, 14)))

RECURSIVE encRounds(_, _, _)
\* the state t of round r is complete: on to round r + 1
encNextRound(aes, t, r) == IF Len(t) = 16 THEN encRounds(aes, t, r + 1) ELSE t

\* rounds r .. Nr - 1 of encryptBlock
encRounds(aes, s, r) ==
    IF r >= aes.Nr THEN s
    ELSE encNextRound(aes, addRoundKey(aes, mixColumns(shiftRows(subBytes(s))), r), r)

\* AESRaw.encryptBlock on one 16-byte block
aesEncryptBlock(aes, block) ==
    LET s == encRounds(aes, addRoundKey(aes, block, 0), 1)
    IN  addRoundKey(aes, shiftRows(subBytes(s)), aes.Nr)

RECURSIVE decRounds(_, _, _)
\* the state t of round r is complete: on to round r - 1
decNextRound(aes, t, r) == IF Len(t) = 16 THEN decRounds(aes, t, r - 1) ELSE t

\* rounds r .. 1 of decryptBlock
decRounds(aes, s, r) ==
    IF r < 1 THEN s
    ELSE decNextRound(aes, invMixColumns(addRoundKey(aes, invSubBytes(invShiftRows(s)), r)), r)

\* AESRaw.decryptBlock on one 16-byte block
aesDecryptBlock(aes, block) ==
    LET s == decRounds(aes, addRoundKey(aes, block, aes.Nr), aes.Nr - 1)
    IN  addRoundKey(aes, invSubBytes(invShiftRows(s)), 0)

\* -------------------------------------------------------------- BlockCipher
\* An engine behind the BlockCipher interface.  kind "AES" is AESRaw; kind
\* "Test" is a keyed byte-rotating substitution cipher of any block size,
\* standing for an arbitrary engine whose decryptBlock inverts encryptBlock.
TestCipher(bs, key) == [kind |-> "Test", blockSize |-> bs, key |-> key]

testEncryptBlock(c, block) ==
    [j \in 1..c.blockSize |->
        S[((block[(j % c.blockSize) + 1] + c.key[j]) % 256) + 1]]

testDecryptBlock(c, block) ==
    [m \in 1..c.blockSize |->
        LET j == ((m + c.blockSize - 2) % c.blockSize) + 1
        IN  (Si[block[j] + 1] + 256 - c.key[j]) % 256]

\* cipher.encryptBlock / cipher.decryptBlock on one block held as a sequence
EncryptBlock(c, block) ==
    IF c.kind = "AES" THEN aesEncryptBlock(c, block) ELSE testEncryptBlock(c, block)
DecryptBlock(c, block) ==
    IF c.kind = "AES" THEN aesDecryptBlock(c, block) ELSE testDecryptBlock(c, block)

\* ------------------------------------------------------------ mode layer
XorSeq(a, b) == [j \in 1..Len(a) |-> Xor(a[j], b[j])]

\* out.set(block, at) / the block written at offset at by encryptBlock
SetAt(out, at, block) ==
    [k \in 1..Len(out) |->
        IF k > at /\ k <= at + Len(block) THEN block[k - at] ELSE out[k]]

cloneBytes(b) == [k \in 1..Len(b) |-> b[k]]

\* assertMultipleOf(n, blockSize, label): TRUE when it throws
NotMultipleOf(n, blockSize) == n % blockSize # 0

\* cloneBytes returning its argument instead of a copy
cloneBufferSame(buf) == buf

\* which buffer cloneBytes(buf) returns: a new Uint8Array, never buf itself
cloneBuffer(buf) == "new"

\* the locals of a mode function at loop entry.  regBuf and outBuf name the
\* buffers that reg and out are: a new array, or one of the caller's
\* ("iv", "data", "out"), which every write to the local then changes too.
Locals(c, d, reg) ==
    [i |-> 0, out |-> Run(Len(d), 0), reg |-> cloneBytes(reg),
     ks |-> Run(c.blockSize, 0), idx |-> c.blockSize,
     regBuf |-> cloneBuffer("iv"), outBuf |-> "new"]
NoLocals ==
    [i |-> 0, out |-> <<>>, reg |-> <<>>, ks |-> <<>>, idx |-> 0,
     regBuf |-> "new", outBuf |-> "new"]

\* the caller's out argument: the data array itself (out === data), or
\* another array with its own bytes
OutIsData == [same |-> TRUE, bytes |-> <<>>]
OutBuffer(b) == [same |-> FALSE, bytes |-> b]
NoOut == OutBuffer(<<>>)

\* the bytes that out holds, data being the bytes of the data array
OutBytes(o, d) == IF o.same THEN d ELSE o.bytes

\* the locals of an in-place function at loop entry: out is the caller's
\* array, the scratch blocks are new
LocalsInplace(c, d, reg, o) ==
    [i |-> 0, out |-> OutBytes(o, d), reg |-> cloneBytes(reg),
     ks |-> Run(c.blockSize, 0), idx |-> c.blockSize,
     regBuf |-> cloneBuffer("iv"), outBuf |-> IF o.same THEN "data" ELSE "out"]

\* Each XxxBegin is the validation of the function: an error result, or the
\* locals at loop entry.  Each XxxIter is one iteration of its loop.
ecbEncryptBegin(c, d) ==
    IF NotMultipleOf(Len(d), c.blockSize)
    THEN Throw("Plaintext length must be a multiple of blockSize bytes")
    ELSE Ok(Locals(c, d, <<>>))

\* ecbEncryptIter encrypting each block XORed with the output block before it
ecbEncryptIterChained(c, d, l) ==
    LET bs == c.blockSize
        prev == IF l.i = 0 THEN Run(bs, 0) ELSE Sub(l.out, l.i - bs, l.i)
    IN  [l EXCEPT !.out = SetAt(l.out, l.i,
                                EncryptBlock(c, XorSeq(Sub(d, l.i, l.i + bs), prev))),
                  !.i = l.i + bs]

\* encryptBlock(data, i, out, i)
ecbEncryptIter(c, d, l) ==
    [l EXCEPT !.out = SetAt(l.out, l.i, EncryptBlock(c, Sub(d, l.i, l.i + c.blockSize))),
              !.i = l.i + c.blockSize]

ecbDecryptBegin(c, d) ==
    IF NotMultipleOf(Len(d), c.blockSize)
    THEN Throw("Ciphertext length must be a multiple of blockSize bytes")
    ELSE Ok(Locals(c, d, <<>>))

\* ecbDecryptIter calling encryptBlock where the code calls decryptBlock
ecbDecryptIterEncrypting(c, d, l) ==
    [l EXCEPT !.out = SetAt(l.out, l.i, EncryptBlock(c, Sub(d, l.i, l.i + c.blockSize))),
              !.i = l.i + c.blockSize]

ecbDecryptIter(c, d, l) ==
    [l EXCEPT !.out = SetAt(l.out, l.i, DecryptBlock(c, Sub(d, l.i, l.i + c.blockSize))),
              !.i = l.i + c.blockSize]

ecbInplaceBegin(c, d, o, label) ==
    IF NotMultipleOf(Len(d), c.blockSize) THEN Throw(label)
    ELSE IF Len(OutBytes(o, d)) # Len(d)
    THEN Throw("Output buffer length must equal input length")
    ELSE Ok(LocalsInplace(c, d, <<>>, o))

ecbEncryptInplaceBegin(c, d, o) ==
    ecbInplaceBegin(c, d, o, "Plaintext length must be a multiple of blockSize bytes")
ecbDecryptInplaceBegin(c, d, o) ==
    ecbInplaceBegin(c, d, o, "Ciphertext length must be a multiple of blockSize bytes")

\* out === data: tmp.set(data block); encryptBlock(tmp, 0, out, i);
\* otherwise encryptBlock(data, i, out, i)
ecbEncryptInplaceIter(c, d, l) ==
    LET bs == c.blockSize
        aliased == l.outBuf = "data"
        tmp == IF aliased THEN Sub(d, l.i, l.i + bs) ELSE l.ks
        inp == IF aliased THEN tmp ELSE Sub(d, l.i, l.i + bs)
    IN  [l EXCEPT !.ks = tmp, !.out = SetAt(l.out, l.i, EncryptBlock(c, inp)),
                  !.i = l.i + bs]

ecbDecryptInplaceIter(c, d, l) ==
    LET bs == c.blockSize
        aliased == l.outBuf = "data"
        tmp == IF aliased THEN Sub(d, l.i, l.i + bs) ELSE l.ks
        inp == IF aliased THEN tmp ELSE Sub(d, l.i, l.i + bs)
    IN  [l EXCEPT !.ks = tmp, !.out = SetAt(l.out, l.i, DecryptBlock(c, inp)),
                  !.i = l.i + bs]

cbcEncryptBegin(c, d, v) ==
    IF Len(v) # c.blockSize THEN Throw("IV must be blockSize bytes")
    ELSE IF NotMultipleOf(Len(d), c.blockSize)
    THEN Throw("Plaintext length must be a multiple of blockSize bytes")
    ELSE Ok(Locals(c, d, v))

\* tmp = data ^ prev; encryptBlock(tmp) into out; prev.set(out block)
cbcEncryptIter(c, d, l) ==
    LET bs == c.blockSize
        tmp == XorSeq(Sub(d, l.i, l.i + bs), l.reg)
        out1 == SetAt(l.out, l.i, EncryptBlock(c, tmp))
    IN  [l EXCEPT !.out = out1, !.reg = Sub(out1, l.i, l.i + bs), !.i = l.i + bs]

cbcDecryptBegin(c, d, v) ==
    IF Len(v) # c.blockSize THEN Throw("IV must be blockSize bytes")
    ELSE IF NotMultipleOf(Len(d), c.blockSize)
    THEN Throw("Ciphertext length must be a multiple of blockSize bytes")
    ELSE Ok(Locals(c, d, v))

\* cbcDecryptIter chaining on the plaintext block it has just produced
cbcDecryptIterPlainChain(c, d, l) ==
    LET bs == c.blockSize
        tmp == DecryptBlock(c, Sub(d, l.i, l.i + bs))
        out1 == SetAt(l.out, l.i, XorSeq(tmp, l.reg))
    IN  [l EXCEPT !.out = out1, !.reg = Sub(out1, l.i, l.i + bs), !.i = l.i + bs]

\* tmp = decryptBlock(data block); out = tmp ^ prev; prev.set(data block)
cbcDecryptIter(c, d, l) ==
    LET bs == c.blockSize
        tmp == DecryptBlock(c, Sub(d, l.i, l.i + bs))
    IN  [l EXCEPT !.out = SetAt(l.out, l.i, XorSeq(tmp, l.reg)),
                  !.reg = Sub(d, l.i, l.i + bs), !.i = l.i + bs]

\* the validation both in-place CBC functions start with: the IV length, the
\* data length (label being its message), then out.length against data.length
cbcInplaceBegin(c, d, v, o, label) ==
    IF Len(v) # c.blockSize THEN Throw("IV must be blockSize bytes")
    ELSE IF NotMultipleOf(Len(d), c.blockSize) THEN Throw(label)
    ELSE IF Len(OutBytes(o, d)) # Len(d)
    THEN Throw("Output buffer length must equal input length")
    ELSE Ok(LocalsInplace(c, d, v, o))

cbcEncryptInplaceBegin(c, d, v, o) ==
    cbcInplaceBegin(c, d, v, o, "Plaintext length must be a multiple of blockSize bytes")
cbcDecryptInplaceBegin(c, d, v, o) ==
    cbcInplaceBegin(c, d, v, o, "Ciphertext length must be a multiple of blockSize bytes")

\* tmpXor = data ^ prev; encryptBlock(tmpXor, 0, out, i); prev.set(out block)
cbcEncryptInplaceIter(c, d, l) ==
    LET bs == c.blockSize
        tmpXor == XorSeq(Sub(d, l.i, l.i + bs), l.reg)
        out1 == SetAt(l.out, l.i, EncryptBlock(c, tmpXor))
    IN  [l EXCEPT !.ks = tmpXor, !.out = out1, !.reg = Sub(out1, l.i, l.i + bs),
                  !.i = l.i + bs]

\* cbcDecryptInplaceIter taking the next prev from the data array after the
\* plaintext block has been written, instead of from the saved tmpCt
cbcDecryptInplaceIterPrevAfterWrite(c, d, l) ==
    LET bs == c.blockSize
        tmpDec == DecryptBlock(c, Sub(d, l.i, l.i + bs))
        out1 == SetAt(l.out, l.i, XorSeq(tmpDec, l.reg))
    IN  [l EXCEPT !.ks = tmpDec, !.out = out1,
                  !.reg = Sub(IF l.outBuf = "data" THEN out1 ELSE d, l.i, l.i + bs),
                  !.i = l.i + bs]

\* tmpCt.set(data block); decryptBlock(data, i, tmpDec, 0);
\* out = tmpDec ^ prev; prev.set(tmpCt)
cbcDecryptInplaceIter(c, d, l) ==
    LET bs == c.blockSize
        tmpCt == Sub(d, l.i, l.i + bs)
        tmpDec == DecryptBlock(c, Sub(d, l.i, l.i + bs))
    IN  [l EXCEPT !.ks = tmpDec, !.out = SetAt(l.out, l.i, XorSeq(tmpDec, l.reg)),
                  !.reg = tmpCt, !.i = l.i + bs]

\* cfbBegin without the upper bound on segmentSize
cfbBeginNoUpperBound(c, d, v, seg, label) ==
    IF Len(v) # c.blockSize THEN Throw("IV must be blockSize bytes")
    ELSE IF seg < 1 THEN Throw("Bad segmentSize")
    ELSE IF Len(d) % seg # 0 THEN Throw(label)
    ELSE Ok(Locals(c, d, v))

\* the validation both CFB functions start with, label being the message of
\* the length check
cfbBegin(c, d, v, seg, label) ==
    IF Len(v) # c.blockSize THEN Throw("IV must be blockSize bytes")
    ELSE IF seg < 1 \/ seg > c.blockSize THEN Throw("Bad segmentSize")
    ELSE IF Len(d) % seg # 0 THEN Throw(label)
    ELSE Ok(Locals(c, d, v))

cfbEncryptBegin(c, d, v, seg) ==
    cfbBegin(c, d, v, seg, "Plaintext must be multiple of segmentSize")
cfbDecryptBegin(c, d, v, seg) ==
    cfbBegin(c, d, v, seg, "Ciphertext must be multiple of segmentSize")

\* ks = E(reg); out segment = data ^ ks; reg.copyWithin(0, seg); then the
\* ciphertext segment (here: of out) is set at blockSize - seg
cfbEncryptIter(c, d, seg, l) ==
    LET ks1 == EncryptBlock(c, l.reg)
        outSeg == XorSeq(Sub(d, l.i, l.i + seg), ks1)
        out1 == SetAt(l.out, l.i, outSeg)
        shifted == SetAt(l.reg, 0, Sub(l.reg, seg, c.blockSize))
    IN  [l EXCEPT !.ks = ks1, !.out = out1,
                  !.reg = SetAt(shifted, c.blockSize - seg, Sub(out1, l.i, l.i + seg)),
                  !.i = l.i + seg]

\* cfbDecryptIter feeding the plaintext segment back into the register
cfbDecryptIterPlainFeedback(c, d, seg, l) ==
    LET ks1 == EncryptBlock(c, l.reg)
        out1 == SetAt(l.out, l.i, XorSeq(Sub(d, l.i, l.i + seg), ks1))
        shifted == SetAt(l.reg, 0, Sub(l.reg, seg, c.blockSize))
    IN  [l EXCEPT !.ks = ks1, !.out = out1,
                  !.reg = SetAt(shifted, c.blockSize - seg, Sub(out1, l.i, l.i + seg)),
                  !.i = l.i + seg]

\* the same with the ciphertext segment taken from data
cfbDecryptIter(c, d, seg, l) ==
    LET ks1 == EncryptBlock(c, l.reg)
        outSeg == XorSeq(Sub(d, l.i, l.i + seg), ks1)
        shifted == SetAt(l.reg, 0, Sub(l.reg, seg, c.blockSize))
    IN  [l EXCEPT !.ks = ks1, !.out = SetAt(l.out, l.i, outSeg),
                  !.reg = SetAt(shifted, c.blockSize - seg, Sub(d, l.i, l.i + seg)),
                  !.i = l.i + seg]

ofbXorBegin(c, d, v) ==
    IF Len(v) # c.blockSize THEN Throw("IV must be blockSize bytes")
    ELSE Ok(Locals(c, d, v))

\* ofbXorIter whose refilled register takes its first byte from the data
ofbXorIterDataFeedback(c, d, l) ==
    LET refill == l.idx = c.blockSize
        ks1 == IF refill THEN EncryptBlock(c, l.reg) ELSE l.ks
        idx1 == IF refill THEN 0 ELSE l.idx
    IN  [l EXCEPT !.ks = ks1,
                  !.reg = IF refill THEN SetAt(ks1, 0, <<d[l.i + 1]>>) ELSE l.reg,
                  !.out = SetAt(l.out, l.i, <<Xor(d[l.i + 1], ks1[idx1 + 1])>>),
                  !.idx = idx1 + 1, !.i = l.i + 1]

\* one byte: refill ks = E(reg), reg.set(ks) when idx = blockSize
ofbXorIter(c, d, l) ==
    LET refill == l.idx = c.blockSize
        ks1 == IF refill THEN EncryptBlock(c, l.reg) ELSE l.ks
        idx1 == IF refill THEN 0 ELSE l.idx
    IN  [l EXCEPT !.ks = ks1, !.reg = IF refill THEN ks1 ELSE l.reg,
                  !.out = SetAt(l.out, l.i, <<Xor(d[l.i + 1], ks1[idx1 + 1])>>),
                  !.idx = idx1 + 1, !.i = l.i + 1]

RECURSIVE ctrIncrementFrom(_, _)
\* for (j = ctr.length - 1; j >= 0; j--) { x = (ctr[j] + 1) & 0xff; ctr[j] = x;
\* if (x !== 0) break; }, entered at index j
ctrIncrementFrom(ctr, j) ==
    IF j < 0 THEN ctr
    ELSE LET x == (ctr[j + 1] + 1) % 256
             ctr1 == [ctr EXCEPT ![j + 1] = x]
         IN  IF x # 0 THEN ctr1 ELSE ctrIncrementFrom(ctr1, j - 1)

\* an increment of the last byte alone, without the carry
ctrIncrementNoCarry(ctr) == [ctr EXCEPT ![Len(ctr)] = (ctr[Len(ctr)] + 1) % 256]

ctrIncrement(ctr) == ctrIncrementFrom(ctr, Len(ctr) - 1)

RECURSIVE CounterIncrementFrom(_, _)
\* Counter.increment of the aes-js port: 255 becomes 0 and the loop goes on,
\* any other byte is incremented and the loop ends
CounterIncrementFrom(counter, i) ==
    IF i < 0 THEN counter
    ELSE IF counter[i + 1] = 255
         THEN CounterIncrementFrom([counter EXCEPT ![i + 1] = 0], i - 1)
         ELSE [counter EXCEPT ![i + 1] = counter[i + 1] + 1]

CounterIncrement(counter) == CounterIncrementFrom(counter, Len(counter) - 1)

\* ctrXorBegin without the check of the counter length
ctrXorBeginUnchecked(c, d, counter) == Ok(Locals(c, d, counter))

ctrXorBegin(c, d, counter) ==
    IF Len(counter) # c.blockSize THEN Throw("Counter must be blockSize bytes")
    ELSE Ok(Locals(c, d, counter))

\* one byte: refill ks = E(ctr) and increment ctr when idx = blockSize
ctrXorIter(c, d, l) ==
    LET refill == l.idx = c.blockSize
        ks1 == IF refill THEN EncryptBlock(c, l.reg) ELSE l.ks
        idx1 == IF refill THEN 0 ELSE l.idx
    IN  [l EXCEPT !.ks = ks1, !.reg = IF refill THEN ctrIncrement(l.reg) ELSE l.reg,
                  !.out = SetAt(l.out, l.i, <<Xor(d[l.i + 1], ks1[idx1 + 1])>>),
                  !.idx = idx1 + 1, !.i = l.i + 1]

ModeFns == {"ecbEncryptRaw", "ecbDecryptRaw", "cbcEncryptRaw", "cbcDecryptRaw",
            "cfbEncryptRaw", "cfbDecryptRaw", "ofbXorRaw", "ctrXorRaw"}

InplaceFns == {"ecbEncryptInplaceRaw", "ecbDecryptInplaceRaw",
               "cbcEncryptInplaceRaw", "cbcDecryptInplaceRaw"}

\* validation and loop entry of the in-place function named f
BeginInplace(f, c, d, v, o) ==
    CASE f = "ecbEncryptInplaceRaw" -> ecbEncryptInplaceBegin(c, d, o)
      [] f = "ecbDecryptInplaceRaw" -> ecbDecryptInplaceBegin(c, d, o)
      [] f = "cbcEncryptInplaceRaw" -> cbcEncryptInplaceBegin(c, d, v, o)
      [] OTHER -> cbcDecryptInplaceBegin(c, d, v, o)

\* validation and loop entry of the function named f
Begin(f, c, d, v, seg) ==
    CASE f = "ecbEncryptRaw" -> ecbEncryptBegin(c, d)
      [] f = "ecbDecryptRaw" -> ecbDecryptBegin(c, d)
      [] f = "cbcEncryptRaw" -> cbcEncryptBegin(c, d, v)
      [] f = "cbcDecryptRaw" -> cbcDecryptBegin(c, d, v)
      [] f = "cfbEncryptRaw" -> cfbEncryptBegin(c, d, v, seg)
      [] f = "cfbDecryptRaw" -> cfbDecryptBegin(c, d, v, seg)
      [] f = "ofbXorRaw" -> ofbXorBegin(c, d, v)
      [] OTHER -> ctrXorBegin(c, d, v)

\* one loop iteration of the function named f
Iter(f, c, d, seg, l) ==
    CASE f = "ecbEncryptRaw" -> ecbEncryptIter(c, d, l)
      [] f = "ecbDecryptRaw" -> ecbDecryptIter(c, d, l)
      [] f = "cbcEncryptRaw" -> cbcEncryptIter(c, d, l)
      [] f = "cbcDecryptRaw" -> cbcDecryptIter(c, d, l)
      [] f = "cfbEncryptRaw" -> cfbEncryptIter(c, d, seg, l)
      [] f = "cfbDecryptRaw" -> cfbDecryptIter(c, d, seg, l)
      [] f = "ofbXorRaw" -> ofbXorIter(c, d, l)
      [] f = "ecbEncryptInplaceRaw" -> ecbEncryptInplaceIter(c, d, l)
      [] f = "ecbDecryptInplaceRaw" -> ecbDecryptInplaceIter(c, d, l)
      [] f = "cbcEncryptInplaceRaw" -> cbcEncryptInplaceIter(c, d, l)
      [] f = "cbcDecryptInplaceRaw" -> cbcDecryptInplaceIter(c, d, l)
      [] OTHER -> ctrXorIter(c, d, l)

\* the function that undoes f
Inverse(f) ==
    CASE f = "ecbEncryptRaw" -> "ecbDecryptRaw"
      [] f = "ecbDecryptRaw" -> "ecbEncryptRaw"
      [] f = "cbcEncryptRaw" -> "cbcDecryptRaw"
      [] f = "cbcDecryptRaw" -> "cbcEncryptRaw"
      [] f = "cfbEncryptRaw" -> "cfbDecryptRaw"
      [] f = "cfbDecryptRaw" -> "cfbEncryptRaw"
      [] f = "ecbEncryptInplaceRaw" -> "ecbDecryptInplaceRaw"
      [] f = "ecbDecryptInplaceRaw" -> "ecbEncryptInplaceRaw"
      [] f = "cbcEncryptInplaceRaw" -> "cbcDecryptInplaceRaw"
      [] f = "cbcDecryptInplaceRaw" -> "cbcEncryptInplaceRaw"
      [] OTHER -> f

\* ------------------------------------------------------------------ PKCS#7
\* padding.ts pkcs7Pad: blockSize - (data.length % blockSize || blockSize)
pkcs7PadLen(len, blockSize) ==
    LET r == len % blockSize
    IN  blockSize - (IF r # 0 THEN r ELSE blockSize)

pkcs7Pad(data, blockSize) ==
    IF blockSize < 1 \/ blockSize > 255 THEN Throw("Invalid block size")
    ELSE LET padLen == pkcs7PadLen(Len(data), blockSize)
         IN  Ok(data \o Run(padLen, padLen))

\* padding.ts pkcs7Unpad: length checks, range check, then the byte loop
\* over data[length - padLen .. length)
pkcs7Unpad(data, blockSize) ==
    IF Len(data) = 0 \/ Len(data) % blockSize # 0 THEN Throw("Bad input")
    ELSE LET padLen == Last(data)
         IN  IF padLen < 1 \/ padLen > blockSize THEN Throw("Bad padding")
             ELSE IF \E i \in (Len(data) - padLen)..(Len(data) - 1) :
                         data[i + 1] # padLen
                  THEN Throw("Bad padding")
                  ELSE Ok(Sub(data, 0, Len(data) - padLen))

\* aes.ts (aes-js port) pkcs7pad: 16 - ((len % 16 || 16) % 16) || 16
pkcs7padLen(len) ==
    LET r == len % 16
        a == IF r # 0 THEN r ELSE 16
        b == 16 - (a % 16)
    IN  IF b # 0 THEN b ELSE 16

pkcs7pad(data) ==
    LET pad == pkcs7padLen(Len(data))
    IN  Ok(data \o Run(pad, pad))

\* aes.ts (aes-js port) pkcs7strip: only "length < 16" is checked on the length
pkcs7strip(data) ==
    IF Len(data) < 16 THEN Throw("PKCS#7 invalid length")
    ELSE LET pad == Last(data)
             cut == Len(data) - pad
         IN  IF pad < 1 \/ pad > 16 THEN Throw("PKCS#7 padding byte out of range")
             ELSE IF \E i \in 0..(pad - 1) : data[cut + i + 1] # pad
                  THEN Throw("PKCS#7 invalid padding byte")
                  ELSE Ok(Sub(data, 0, cut))

\* ------------------------------------------------- padding: inputs, driver
MaxRun == 17
MaxTail == 2
FillBytes == {0, 4, 16}
TailBytes == {0, 1, 2, 4, 16, 17}
BlockSizes == {1, 2, 3, 4, 8, 16, 255}

RECURSIVE SeqsUpTo(_, _)
SeqsUpTo(A, n) ==
    IF n = 0 THEN {<<>>}
    ELSE LET shorter == SeqsUpTo(A, n - 1)
         IN  shorter \cup {Append(s, x) : s \in shorter, x \in A}

\* a run of one byte followed by a short free tail
PadInputs ==
    {Run(n, a) \o t : n \in 0..MaxRun, a \in FillBytes, t \in SeqsUpTo(TailBytes, MaxTail)}

NoCall == [fn |-> "none", data |-> <<>>, ret |-> NoResult, trace |-> <<>>]

\* the caller's buffers at the time of a call
Given(d, v, o) == [data |-> d, iv |-> v, out |-> o]

ModeIdle ==
    /\ cipher = [kind |-> "none"]
    /\ fn = "none"
    /\ modeData = <<>>
    /\ iv = <<>>
    /\ segmentSize = 0
    /\ loc = NoLocals
    /\ ret = NoResult
    /\ first = NoCall
    /\ regTrace = <<>>
    /\ outArg = NoOut
    /\ given = Given(<<>>, <<>>, NoOut)

AesIdle ==
    /\ aesKey = <<>>
    /\ aesEngine = NoResult
    /\ aesIn = <<>>
    /\ aesOut = NoResult

FacIdle ==
    /\ facArgs = [class |-> "none"]
    /\ facade = NoResult
    /\ facPlain = <<>>
    /\ facEncrypted = NoResult
    /\ facDecrypted = NoResult

TfIdle ==
    /\ tfKey = <<>>
    /\ tfSession = [called |-> FALSE]

BfIdle ==
    /\ bfP = <<>>
    /\ bfS = <<>>
    /\ bfIn = <<>>
    /\ bfOut = NoResult

TfbIdle ==
    /\ tfSBox = <<>>
    /\ tfSKey = <<>>
    /\ tfIn = <<>>
    /\ tfOut = NoResult

EngIdle ==
    /\ engBuilt = <<>>
    /\ engLog = <<>>

NewIdle ==
    /\ newClass = "none"
    /\ newKey = <<>>
    /\ newLoc = <<>>
    /\ newLog = <<>>
    /\ newBuilt = <<>>
    /\ bfConst = <<>>
    /\ tfMod = <<>>

StrIdle ==
    /\ strArgs = <<>>
    /\ strObj = NoResult
    /\ strTrace = <<>>
    /\ strRets = <<>>
    /\ strWhole = NoResult

MsgIdle ==
    /\ inbox = <<>>
    /\ seenIds = {}
    /\ clients = {}
    /\ srvNow = 0
    /\ posts = <<>>
    /\ wsUp = <<>>
    /\ wsDown = <<>>
    /\ cliState = <<>>
    /\ refreshes = 0

RpcIdle ==
    /\ rpcState = <<>>
    /\ rpcUp = <<>>
    /\ rpcDown = <<>>
    /\ rpcLast = <<>>

LateIdle == StrIdle /\ MsgIdle /\ RpcIdle

\* the layers further down are not in use
RestIdle == EngIdle /\ NewIdle /\ LateIdle

PadInit ==
    /\ pc = "start"
    /\ RestIdle
    /\ BfIdle
    /\ TfbIdle
    /\ TfIdle
    /\ ModeIdle
    /\ AesIdle
    /\ FacIdle
    /\ padFn = "none"
    /\ padData \in PadInputs
    /\ padBs \in BlockSizes
    /\ padded = NoResult
    /\ unpadded = NoResult

PadIdle ==
    /\ padFn = "none"
    /\ padData = <<>>
    /\ padBs = 0
    /\ padded = NoResult
    /\ unpadded = NoResult

PadOthers == <<tfVars, modeVars, aesVars, facVars, bfVars, tfbVars, restVars>>

\* pkcs7Pad(data, blockSize)
Pkcs7Pad ==
    /\ pc = "start"
    /\ padded' = pkcs7Pad(padData, padBs)
    /\ padFn' = "pkcs7Pad"
    /\ pc' = "padded"
    /\ UNCHANGED <<padData, padBs, unpadded, PadOthers>>

\* pkcs7Unpad on what pkcs7Pad returned
Pkcs7UnpadPadded ==
    /\ pc = "padded"
    /\ padFn = "pkcs7Pad"
    /\ padded.ok
    /\ unpadded' = pkcs7Unpad(padded.val, padBs)
    /\ padFn' = "pkcs7Unpad"
    /\ pc' = "roundtrip"
    /\ UNCHANGED <<padData, padBs, padded, PadOthers>>

\* pkcs7Unpad on arbitrary caller data
Pkcs7Unpad ==
    /\ pc = "start"
    /\ unpadded' = pkcs7Unpad(padData, padBs)
    /\ padFn' = "pkcs7Unpad"
    /\ pc' = "unpadded"
    /\ UNCHANGED <<padData, padBs, padded, PadOthers>>

\* padding.pkcs7.pad(data) of the aes-js port (block size fixed at 16)
Pkcs7padAes ==
    /\ pc = "start"
    /\ padBs = 16
    /\ padded' = pkcs7pad(padData)
    /\ padFn' = "pkcs7pad"
    /\ pc' = "padded"
    /\ UNCHANGED <<padData, padBs, unpadded, PadOthers>>

\* padding.pkcs7.strip on what padding.pkcs7.pad returned
Pkcs7stripPadded ==
    /\ pc = "padded"
    /\ padFn = "pkcs7pad"
    /\ unpadded' = pkcs7strip(padded.val)
    /\ padFn' = "pkcs7strip"
    /\ pc' = "roundtrip"
    /\ UNCHANGED <<padData, padBs, padded, PadOthers>>

\* padding.pkcs7.strip on arbitrary caller data
Pkcs7stripAes ==
    /\ pc = "start"
    /\ padBs = 16
    /\ unpadded' = pkcs7strip(padData)
    /\ padFn' = "pkcs7strip"
    /\ pc' = "unpadded"
    /\ UNCHANGED <<padData, padBs, padded, PadOthers>>

PadNext ==
    \/ Pkcs7Pad
    \/ Pkcs7UnpadPadded
    \/ Pkcs7Unpad
    \/ Pkcs7padAes
    \/ Pkcs7stripPadded
    \/ Pkcs7stripAes

SpecPad == PadInit /\ [][PadNext]_vars

\* the data the unpad call of the current state was given
UnpadArg == IF pc = "roundtrip" THEN padded.val ELSE padData

\* C2: pad appends exactly padLen = bs - (len mod bs) bytes of value padLen,
\* padLen = bs for aligned input (len = 0 included), so 1 <= padLen <= bs
\* and the output length is a positive multiple of bs.
C2_PadAppendsPadLen ==
    pc = "padded" =>
        LET padLen == padBs - (Len(padData) % padBs)
        IN  /\ padLen \in 1..padBs
            /\ padded = Ok(padData \o Run(padLen, padLen))
            /\ Len(padded.val) > 0
            /\ Len(padded.val) % padBs = 0

\* C3: unpad(pad(M, bs), bs) = M for every M, the empty and the aligned
\* sequences included.
C3_UnpadInvertsPad ==
    pc = "roundtrip" => unpadded = Ok(padData)

\* what C4 calls invalid: empty, unaligned, last byte 0 or > bs, or the last
\* p bytes not all p
InvalidPadding(data, bs) ==
    \/ Len(data) = 0
    \/ Len(data) % bs # 0
    \/ Last(data) = 0
    \/ Last(data) > bs
    \/ \E i \in (Len(data) - Last(data) + 1)..Len(data) : data[i] # Last(data)

\* C4: unpad fails on every invalid input and in every other case returns
\* exactly the first len - p bytes.
C4_UnpadRejectsInvalid ==
    pc \in {"unpadded", "roundtrip"} =>
        IF InvalidPadding(UnpadArg, padBs)
        THEN ~unpadded.ok
        ELSE unpadded = Ok(Sub(UnpadArg, 0, Len(UnpadArg) - Last(UnpadArg)))

\* the smallest element of a non-empty set of integers
MinOf(A) == CHOOSE x \in A : \A y \in A : x <= y

\* how often pkcs7Unpad evaluates data[i] !== padLen: none when a check
\* before the loop throws; otherwise the loop starts at length - padLen and
\* is left by the throw at the first mismatch
pkcs7UnpadCompares(data, blockSize) ==
    IF Len(data) = 0 \/ Len(data) % blockSize # 0 THEN 0
    ELSE LET padLen == Last(data)
             from == Len(data) - padLen
             diff == {i \in from..(Len(data) - 1) : data[i + 1] # padLen}
         IN  IF padLen < 1 \/ padLen > blockSize THEN 0
             ELSE IF diff = {} THEN padLen
             ELSE MinOf(diff) - from + 1

\* how often pkcs7strip evaluates u8[cut + i] !== pad
pkcs7stripCompares(data) ==
    IF Len(data) < 16 THEN 0
    ELSE LET pad == Last(data)
             cut == Len(data) - pad
             diff == {i \in 0..(pad - 1) : data[cut + i + 1] # pad}
         IN  IF pad < 1 \/ pad > 16 THEN 0
             ELSE IF diff = {} THEN pad
             ELSE MinOf(diff) + 1

\* the unpad function of the current state applied to data
UnpadOf(data) ==
    IF padFn = "pkcs7strip" THEN pkcs7strip(data) ELSE pkcs7Unpad(data, padBs)
ComparesOf(data) ==
    IF padFn = "pkcs7strip" THEN pkcs7stripCompares(data)
    ELSE pkcs7UnpadCompares(data, padBs)

\* data passes the checks unpad makes on the length alone
PassesLengthChecks(data) ==
    IF padFn = "pkcs7strip" THEN Len(data) >= 16
    ELSE Len(data) > 0 /\ Len(data) % padBs = 0

\* inputs of the length of data: data with one of its last two bytes replaced
SameLengthAs(data) ==
    {[data EXCEPT ![j] = b] :
        j \in {Len(data), Len(data) - 1} \cap (1..Len(data)), b \in {1, 2, 16}}

\* C22: constant-time unpad.  For an input that passes the length checks the
\* number of byte comparisons unpad performs is blockSize, a full window
\* without early exit, and so the same as for any other input of that length,
\* whatever the padding length byte and wherever the first mismatch is.
C22_UnpadConstantTime ==
    (pc \in {"unpadded", "roundtrip"} /\ PassesLengthChecks(UnpadArg)) =>
        /\ ComparesOf(UnpadArg) = padBs
        /\ \A other \in SameLengthAs(UnpadArg) :
              ComparesOf(other) = ComparesOf(UnpadArg)

\* C23: every unpad failure yields one and the same error.  Whichever check
\* fails (empty input, length not a multiple of blockSize, padding byte out
\* of range, mismatching padding bytes), the error raised is the one raised
\* for the empty input.
C23_UnpadUniformError ==
    (pc \in {"unpadded", "roundtrip"} /\ ~unpadded.ok) => unpadded = UnpadOf(<<>>)

\* ------------------------------------------------------ Twofish key schedule
RS_GF_FDBK == 333    \* 0x14d

\* one step of the Reed-Solomon shift register (the statement repeated in
\* rsMDSEncode): b = k1 >>> 24, g2, g3, then
\* k1 = (k1 << 8) ^ (g3 << 24) ^ (g2 << 16) ^ (g3 << 8) ^ b
rsStep(k1) ==
    LET b == k1[1]
        g2 == And(Xor(b * 2, IF And(b, 128) # 0 THEN RS_GF_FDBK ELSE 0), 255)
        g3 == Xor(Xor(b \div 2, IF And(b, 1) # 0 THEN RS_GF_FDBK \div 2 ELSE 0), g2)
    IN  WXor(WShl8(k1), <<g3, g2, g3, b>>)

rsMDSEncode(k0, k1) ==
    LET a == rsStep(rsStep(rsStep(rsStep(k1))))
        m == WXor(a, k0)
    IN  rsStep(rsStep(rsStep(rsStep(m))))

\* key[i] of a Uint8Array inside a bitwise expression: out of range reads
\* undefined, which | and << take as 0
KeyByte(key, i) == IF i < Len(key) THEN key[i + 1] ELSE 0

\* the little-endian word key[o] | key[o+1] << 8 | key[o+2] << 16 | key[o+3] << 24
KeyWordLE(key, o) ==
    <<KeyByte(key, o + 3), KeyByte(key, o + 2), KeyByte(key, o + 1), KeyByte(key, o)>>

\* sBox[idx8 / 8] = v on the 1024-word Uint32Array, the index given in
\* eighths: a typed array ignores a store whose index is not an integer
\* inside 0..1023
TypedStore(sBox4, idx8, v) ==
    IF idx8 % 8 = 0 /\ idx8 \div 8 \in 0..3
    THEN [sBox4 EXCEPT ![(idx8 \div 8) + 1] = v]
    ELSE sBox4

\* makeSession, lines 93-159 and 182-185: the key normalisation, k64Cnt, the
\* eight key words and the four S-box key words read back from sBox[0..3].
\* keyLength is the local of that name after normalisation, so k64Cnt is
\* keyLength / 8; sel is k64Cnt & 3 as getSubKeyWord computes it.
makeSession(key0) ==
    LET len0 == Len(key0)
        mod == len0 % 8
        extend == len0 <= 32 /\ (len0 = 0 \/ mod # 0)
        keyLength == IF extend THEN len0 + (8 - mod) ELSE len0
        key == IF len0 > 32 THEN Sub(key0, 0, 32)
               ELSE IF extend THEN key0 \o Run(keyLength - len0, 0)
               ELSE key0
        k == [i \in 0..7 |-> KeyWordLE(key, 4 * i)]
        s1 == TypedStore(<<WZero, WZero, WZero, WZero>>, keyLength - 8, rsMDSEncode(k[0], k[1]))
        s2 == TypedStore(s1, keyLength - 16, rsMDSEncode(k[2], k[3]))
        s3 == TypedStore(s2, keyLength - 24, rsMDSEncode(k[4], k[5]))
        s4 == TypedStore(s3, keyLength - 32, rsMDSEncode(k[6], k[7]))
    IN  [called |-> TRUE,
         key |-> key,
         keyLength |-> keyLength,
         sel |-> (keyLength \div 8) % 4,
         kWords |-> k,
         sBoxKeys |-> s4]

\* ------------------------------------------------- Twofish: inputs, driver
MaxKeyLen == 41
KeyPatterns == {<<1, 1>>, <<255, 3>>, <<16, 0>>}

TfInit ==
    /\ pc = "start"
    /\ RestIdle
    /\ BfIdle
    /\ TfbIdle
    /\ PadIdle
    /\ ModeIdle
    /\ AesIdle
    /\ FacIdle
    /\ tfKey \in {PatternKey(n, pat) : n \in 0..MaxKeyLen, pat \in KeyPatterns}
    /\ tfSession = [called |-> FALSE]

TfOthers == <<padVars, modeVars, aesVars, facVars, bfVars, tfbVars, restVars>>

\* new TwofishRaw(key): this.session = makeSession(key)
MakeSession ==
    /\ pc = "start"
    /\ tfSession' = makeSession(tfKey)
    /\ pc' = "done"
    /\ UNCHANGED <<tfKey, TfOthers>>

TfNext ==
    \/ MakeSession

SpecTwofish == TfInit /\ [][TfNext]_vars

\* the key trimmed to its first 32 bytes and zero-extended to a multiple of 8
NormalisedKey(key) ==
    LET t == IF Len(key) > 32 THEN Sub(key, 0, 32) ELSE key
        n == IF Len(t) = 0 THEN 8 ELSE ((Len(t) + 7) \div 8) * 8
    IN  t \o Run(n - Len(t), 0)

\* C5: makeSession derives its schedule from the normalised key, k64Cnt is an
\* integer in 1..4, and a key longer than 32 bytes yields the session of its
\* first 32 bytes.
C5_KeyNormalisation ==
    pc = "done" =>
        /\ tfSession.key = NormalisedKey(tfKey)
        /\ tfSession.keyLength % 8 = 0
        /\ tfSession.keyLength \div 8 \in 1..4
        /\ Len(tfKey) > 32 => tfSession = makeSession(Sub(tfKey, 0, 32))

\* ---------------------------------------------- mode layer: inputs, driver
MaxDataLen == 6
DataBytes == {1, 255}
ModeBlockSizes == {2, 3}

ModeCiphers ==
    {TestCipher(bs, PatternKey(bs, pat)) : bs \in ModeBlockSizes, pat \in {<<7, 90>>}}

\* IVs and counters: at and next to the all-0xFF boundary, one plain value,
\* and one of the wrong length
IVs(bs) ==
    {Run(bs, 255), Run(bs - 1, 0) \o <<255>>, Run(bs - 1, 255) \o <<254>>,
     PatternKey(bs, <<1, 1>>), Run(bs - 1, 9)}

MaxIncrements == 3

\* 16-byte values for the Counter of the aes-js port, and one of 15 bytes
CounterValues ==
    {Run(16, 255), Run(15, 0) \o <<255>>, Run(14, 0) \o <<255, 255>>,
     Run(15, 255) \o <<254>>, Run(16, 0), Run(13, 7) \o <<254, 255, 255>>,
     Run(15, 0)}

\* out arguments for data of n bytes: the data array itself, another array
\* of n bytes that is not zero, and one that is a byte short or long
OutArgs(n) ==
    {OutIsData, OutBuffer(Run(n, 85)), OutBuffer(Run(n + 1, 85))}
      \cup (IF n > 0 THEN {OutBuffer(Run(n - 1, 85))} ELSE {})

ModeInit ==
    /\ pc = "call"
    /\ RestIdle
    /\ BfIdle
    /\ TfbIdle
    /\ PadIdle
    /\ TfIdle
    /\ AesIdle
    /\ FacIdle
    /\ cipher \in ModeCiphers
    /\ \/ /\ fn \in ModeFns
          /\ modeData \in SeqsUpTo(DataBytes, MaxDataLen)
          /\ iv \in IVs(cipher.blockSize)
          /\ segmentSize \in IF fn \in {"cfbEncryptRaw", "cfbDecryptRaw"}
                             THEN (-1)..(cipher.blockSize + 1)
                             ELSE {cipher.blockSize}
          /\ outArg = NoOut
       \/ /\ fn \in InplaceFns
          /\ modeData \in SeqsUpTo(DataBytes, MaxDataLen)
          /\ iv \in IVs(cipher.blockSize)
          /\ segmentSize = cipher.blockSize
          /\ outArg \in OutArgs(Len(modeData))
       \/ /\ fn = "Counter"
          /\ modeData = <<>>
          /\ iv \in CounterValues
          /\ segmentSize = cipher.blockSize
          /\ outArg = NoOut
    /\ loc = NoLocals
    /\ ret = NoResult
    /\ first = NoCall
    /\ regTrace = <<>>
    /\ given = Given(modeData, iv, outArg)

ModeOthers == <<padVars, tfVars, aesVars, facVars, bfVars, tfbVars, restVars>>

\* entry of f: its argument validation throws, or the locals are set up
CallOf(f) ==
    /\ pc = "call"
    /\ fn = f
    /\ LET b == IF f \in InplaceFns
                THEN BeginInplace(f, cipher, modeData, iv, outArg)
                ELSE Begin(f, cipher, modeData, iv, segmentSize)
       IN  IF b.ok
           THEN /\ loc' = b.val
                /\ regTrace' = <<b.val.reg>>
                /\ pc' = "loop"
                /\ UNCHANGED ret
           ELSE /\ ret' = b
                /\ pc' = "returned"
                /\ UNCHANGED <<loc, regTrace>>
    /\ UNCHANGED <<cipher, fn, modeData, iv, segmentSize, first, outArg, given,
                   ModeOthers>>

\* one iteration of the loop of f
IterOf(f) ==
    /\ pc = "loop"
    /\ fn = f
    /\ loc.i < Len(modeData)
    /\ loc' = Iter(f, cipher, modeData, segmentSize, loc)
    /\ regTrace' = Append(regTrace, loc'.reg)
    /\ modeData' = IF loc.outBuf = "data" THEN loc'.out ELSE modeData
    /\ outArg' = IF loc.outBuf = "out" THEN OutBuffer(loc'.out) ELSE outArg
    /\ iv' = IF loc.regBuf = "iv" THEN loc'.reg ELSE iv
    /\ UNCHANGED <<pc, cipher, fn, segmentSize, ret, first, given, ModeOthers>>

EcbEncryptRaw == CallOf("ecbEncryptRaw") \/ IterOf("ecbEncryptRaw")
EcbDecryptRaw == CallOf("ecbDecryptRaw") \/ IterOf("ecbDecryptRaw")
CbcEncryptRaw == CallOf("cbcEncryptRaw") \/ IterOf("cbcEncryptRaw")
CbcDecryptRaw == CallOf("cbcDecryptRaw") \/ IterOf("cbcDecryptRaw")
CfbEncryptRaw == CallOf("cfbEncryptRaw") \/ IterOf("cfbEncryptRaw")
CfbDecryptRaw == CallOf("cfbDecryptRaw") \/ IterOf("cfbDecryptRaw")
OfbXorRaw == CallOf("ofbXorRaw") \/ IterOf("ofbXorRaw")
CtrXorRaw == CallOf("ctrXorRaw") \/ IterOf("ctrXorRaw")
EcbEncryptInplaceRaw == CallOf("ecbEncryptInplaceRaw") \/ IterOf("ecbEncryptInplaceRaw")
EcbDecryptInplaceRaw == CallOf("ecbDecryptInplaceRaw") \/ IterOf("ecbDecryptInplaceRaw")
CbcEncryptInplaceRaw == CallOf("cbcEncryptInplaceRaw") \/ IterOf("cbcEncryptInplaceRaw")
CbcDecryptInplaceRaw == CallOf("cbcDecryptInplaceRaw") \/ IterOf("cbcDecryptInplaceRaw")

\* return out, once the loop condition fails
ReturnOut ==
    /\ pc = "loop"
    /\ loc.i >= Len(modeData)
    /\ ret' = Ok(loc.out)
    /\ pc' = "returned"
    /\ UNCHANGED <<cipher, fn, modeData, iv, segmentSize, loc, first, regTrace,
                   outArg, given, ModeOthers>>

\* new Counter(bytes) of the aes-js port: setBytes copies 16 bytes or throws
CounterNew ==
    /\ pc = "call"
    /\ fn = "Counter"
    /\ IF Len(iv) # 16
       THEN /\ ret' = Throw("invalid counter bytes size (must be 16 bytes)")
            /\ pc' = "returned"
            /\ UNCHANGED <<loc, regTrace>>
       ELSE /\ loc' = [NoLocals EXCEPT !.reg = cloneBytes(iv)]
            /\ regTrace' = <<iv>>
            /\ pc' = "counter"
            /\ UNCHANGED ret
    /\ UNCHANGED <<cipher, fn, modeData, iv, segmentSize, first, outArg, given,
                   ModeOthers>>

\* counter.increment() of the aes-js port
CounterIncrementCall ==
    /\ pc = "counter"
    /\ Len(regTrace) <= MaxIncrements
    /\ loc' = [loc EXCEPT !.reg = CounterIncrement(loc.reg)]
    /\ regTrace' = Append(regTrace, loc'.reg)
    /\ UNCHANGED <<pc, cipher, fn, modeData, iv, segmentSize, ret, first, outArg,
                   given, ModeOthers>>

\* the caller hands the returned buffer to the inverse function, with the
\* same cipher, iv / counter and segment size (comparison.ts correctness
\* checks); an in-place function that wrote into the data array is undone in
\* that array, one that wrote into another array gets a new array for out
CallInverse ==
    /\ pc = "returned"
    /\ first = NoCall
    /\ ret.ok
    /\ first' = [fn |-> fn, data |-> given.data, ret |-> ret, trace |-> regTrace]
    /\ fn' = Inverse(fn)
    /\ modeData' = ret.val
    /\ outArg' = IF fn \in InplaceFns /\ ~outArg.same
                 THEN OutBuffer(Run(Len(ret.val), 85)) ELSE outArg
    /\ given' = Given(modeData', iv, outArg')
    /\ loc' = NoLocals
    /\ ret' = NoResult
    /\ regTrace' = <<>>
    /\ pc' = "call"
    /\ UNCHANGED <<cipher, iv, segmentSize, ModeOthers>>

ModeNext ==
    \/ EcbEncryptRaw
    \/ EcbDecryptRaw
    \/ CbcEncryptRaw
    \/ CbcDecryptRaw
    \/ CfbEncryptRaw
    \/ CfbDecryptRaw
    \/ OfbXorRaw
    \/ CtrXorRaw
    \/ EcbEncryptInplaceRaw
    \/ EcbDecryptInplaceRaw
    \/ CbcEncryptInplaceRaw
    \/ CbcDecryptInplaceRaw
    \/ ReturnOut
    \/ CallInverse
    \/ CounterNew
    \/ CounterIncrementCall

SpecModes == ModeInit /\ [][ModeNext]_vars

\* block k (0-based) of s, for blocks of bs bytes
Blk(s, k, bs) == Sub(s, k * bs, (k + 1) * bs)

\* C7: CBC chaining.  In cbcEncryptRaw every output block already written
\* is E(P[k] XOR C[k-1]) with C[-1] = IV; in cbcDecryptRaw it is
\* D(C[k]) XOR C[k-1]; and on both paths the chaining register starts as the
\* IV and, after block k is processed, holds ciphertext block k.
C7_CbcChaining ==
    LET bs == cipher.blockSize
        done == loc.i \div bs
    IN  /\ fn = "cbcEncryptRaw" =>
             \A k \in 0..(done - 1) :
                LET prev == IF k = 0 THEN iv ELSE Blk(loc.out, k - 1, bs)
                IN  /\ Blk(loc.out, k, bs)
                          = EncryptBlock(cipher, XorSeq(Blk(modeData, k, bs), prev))
                    /\ regTrace[k + 2] = Blk(loc.out, k, bs)
        /\ fn = "cbcDecryptRaw" =>
             \A k \in 0..(done - 1) :
                LET prev == IF k = 0 THEN iv ELSE Blk(modeData, k - 1, bs)
                IN  /\ Blk(loc.out, k, bs)
                          = XorSeq(DecryptBlock(cipher, Blk(modeData, k, bs)), prev)
                    /\ regTrace[k + 2] = Blk(modeData, k, bs)
        /\ (fn \in {"cbcEncryptRaw", "cbcDecryptRaw"} /\ regTrace # <<>>) =>
             /\ regTrace[1] = iv
             /\ Len(regTrace) = done + 1
             /\ loc.reg = regTrace[done + 1]

\* a CBC decryption of at least two blocks has returned, its input being the
\* output of cbcEncryptRaw
C7_Witness ==
    /\ pc = "returned"
    /\ fn = "cbcDecryptRaw"
    /\ first.fn = "cbcEncryptRaw"
    /\ ret.ok
    /\ loc.i >= 2 * cipher.blockSize
    /\ loc.reg = Blk(first.ret.val, (loc.i \div cipher.blockSize) - 1, cipher.blockSize)
    /\ loc.reg # Blk(first.data, (loc.i \div cipher.blockSize) - 1, cipher.blockSize)

\* C8: raw ECB and CBC round trip.  ecbEncryptRaw / cbcEncryptRaw accept every
\* plaintext whose length is a multiple of blockSize (with an IV of blockSize
\* bytes), and the inverse function applied to their output with the same
\* cipher and IV returns the plaintext.
C8_EcbCbcRoundTrip ==
    /\ (pc = "returned" /\ first = NoCall /\ fn \in {"ecbEncryptRaw", "cbcEncryptRaw"}
          /\ Len(modeData) % cipher.blockSize = 0
          /\ (fn = "cbcEncryptRaw" => Len(iv) = cipher.blockSize))
         => (ret.ok /\ Len(ret.val) = Len(modeData))
    /\ (pc = "returned" /\ first.fn \in {"ecbEncryptRaw", "cbcEncryptRaw"})
         => ret = Ok(first.data)

\* an ECB round trip over at least two blocks has come back
C8_Witness ==
    /\ pc = "returned"
    /\ first.fn = "ecbEncryptRaw"
    /\ fn = "ecbDecryptRaw"
    /\ Len(first.data) >= 2 * cipher.blockSize
    /\ first.ret.val # first.data
    /\ ret = Ok(first.data)

\* C9: CFB round trip with ciphertext feedback.  For every segment size s in
\* 1..blockSize and every input whose length is a multiple of s,
\* cfbEncryptRaw succeeds and cfbDecryptRaw of its output returns the input;
\* each step shifts the register left by s bytes and fills the tail with the
\* ciphertext segment, so the decrypting register equals the encrypting one
\* at every step.
C9_CfbRoundTrip ==
    LET bs == cipher.blockSize
        seg == segmentSize
    IN  /\ (pc = "returned" /\ first = NoCall /\ fn = "cfbEncryptRaw"
              /\ seg \in 1..bs /\ Len(modeData) % seg = 0 /\ Len(iv) = bs)
             => (ret.ok /\ Len(ret.val) = Len(modeData))
        /\ (pc = "returned" /\ first.fn = "cfbEncryptRaw") => ret = Ok(first.data)
        /\ (fn = "cfbDecryptRaw" /\ first.fn = "cfbEncryptRaw") =>
             \A k \in 1..Len(regTrace) : regTrace[k] = first.trace[k]
        /\ (fn \in {"cfbEncryptRaw", "cfbDecryptRaw"} /\ regTrace # <<>>) =>
             LET ct == IF fn = "cfbEncryptRaw" THEN loc.out ELSE modeData
             IN  /\ regTrace[1] = iv
                 /\ Len(regTrace) = (loc.i \div seg) + 1
                 /\ \A k \in 1..(Len(regTrace) - 1) :
                       regTrace[k + 1]
                         = Sub(regTrace[k], seg, bs) \o Blk(ct, k - 1, seg)

\* a CFB round trip with one-byte segments over more than a block has come
\* back, the plaintext differing from the ciphertext in its last segment
C9_Witness ==
    /\ pc = "returned"
    /\ fn = "cfbDecryptRaw"
    /\ first.fn = "cfbEncryptRaw"
    /\ segmentSize = 1
    /\ Len(first.data) > cipher.blockSize
    /\ Last(first.data) # Last(first.ret.val)
    /\ ret = Ok(first.data)
    /\ regTrace = first.trace

RECURSIVE BEValue(_)
\* the big-endian integer held in a byte sequence
BEValue(a) == IF a = <<>> THEN 0 ELSE BEValue(SubSeq(a, 1, Len(a) - 1)) * 256 + Last(a)

\* the len-byte big-endian encoding of n
BEBytes(n, len) == [j \in 1..len |-> (n \div (256 ^ (len - j))) % 256]

\* the length of the trailing run of 0xFF bytes of a
TrailingFF(a) ==
    CHOOSE t \in 0..Len(a) :
        /\ \A j \in (Len(a) - t + 1)..Len(a) : a[j] = 255
        /\ t = Len(a) \/ a[Len(a) - t] # 255

\* a with its trailing 0xFF run zeroed and the byte left of the run plus one
PlusOne(a) ==
    LET t == TrailingFF(a)
    IN  [j \in 1..Len(a) |->
            IF j > Len(a) - t THEN 0
            ELSE IF j = Len(a) - t THEN a[j] + 1
            ELSE a[j]]

\* C10: CTR keystream and counter arithmetic.  In ctrXorRaw output byte n is
\* the input byte XOR byte (n mod blockSize) of E((counter0 + k) mod
\* 2^(8*blockSize)), k = n div blockSize, the counter read big-endian; after
\* k keystream blocks the counter holds counter0 + k; every increment (that of
\* ctrXorRaw and Counter.increment of the aes-js port) zeroes the trailing
\* 0xFF run, adds one to the byte left of it, leaves the other bytes alone,
\* and turns the all-0xFF counter into all-zero without an error.
C10_CtrKeystream ==
    LET bs == cipher.blockSize
        modulus == 256 ^ bs
        blocks == (loc.i + bs - 1) \div bs
        ksBlock(k) == EncryptBlock(cipher, BEBytes((BEValue(iv) + k) % modulus, bs))
    IN  /\ (fn = "ctrXorRaw" /\ regTrace # <<>>) =>
             /\ \A n \in 0..(loc.i - 1) :
                   loc.out[n + 1] = Xor(modeData[n + 1], ksBlock(n \div bs)[(n % bs) + 1])
             /\ loc.reg = BEBytes((BEValue(iv) + blocks) % modulus, bs)
             /\ loc.i > 0 => loc.ks = ksBlock(blocks - 1)
             /\ \A k \in 1..(Len(regTrace) - 1) :
                   regTrace[k + 1] = IF (k - 1) % bs = 0 THEN PlusOne(regTrace[k])
                                     ELSE regTrace[k]
        /\ (fn = "ctrXorRaw" /\ pc = "returned" /\ Len(iv) = bs) => ret.ok
        /\ (fn = "Counter" /\ pc = "counter") =>
             \A k \in 1..(Len(regTrace) - 1) : regTrace[k + 1] = PlusOne(regTrace[k])

\* ctrXorRaw has returned after starting from the all-0xFF counter and using
\* more than one keystream block: the counter wrapped to zero and went on
C10_Witness ==
    /\ pc = "returned"
    /\ fn = "ctrXorRaw"
    /\ ret.ok
    /\ iv = Run(cipher.blockSize, 255)
    /\ Len(modeData) > cipher.blockSize
    /\ regTrace[2] = Run(cipher.blockSize, 0)
    /\ loc.reg = BEBytes(1, cipher.blockSize)

\* C11: OFB and CTR are symmetric.  For every input of any length (0 and
\* lengths that are not a multiple of blockSize included) and every IV /
\* counter of blockSize bytes, ofbXorRaw and ctrXorRaw succeed with an output
\* of the length of the input, and the same function applied to that output
\* with the same cipher and IV / counter returns the input.
C11_OfbCtrSymmetric ==
    /\ (pc = "returned" /\ fn \in {"ofbXorRaw", "ctrXorRaw"}
          /\ Len(iv) = cipher.blockSize)
         => (ret.ok /\ Len(ret.val) = Len(modeData))
    /\ (pc = "returned" /\ first.fn \in {"ofbXorRaw", "ctrXorRaw"})
         => (fn = first.fn /\ ret = Ok(first.data))

\* an OFB round trip has come back over an input that is longer than a block
\* and not a multiple of the block size, the keystream having changed it
C11_Witness ==
    /\ pc = "returned"
    /\ first.fn = "ofbXorRaw"
    /\ fn = "ofbXorRaw"
    /\ Len(first.data) > cipher.blockSize
    /\ Len(first.data) % cipher.blockSize # 0
    /\ first.ret.val # first.data
    /\ ret = Ok(first.data)

\* C12: CFB parameter validation.  cfbEncryptRaw and cfbDecryptRaw throw
\* when segmentSize is below 1 or above blockSize and when the input length
\* is not a multiple of segmentSize, so the loop is never entered with such
\* arguments; with an IV of blockSize bytes, every segmentSize in
\* 1..blockSize and an input whose length is a multiple of it are accepted.
C12_CfbValidation ==
    LET bs == cipher.blockSize
        seg == segmentSize
        badSeg == seg < 1 \/ seg > bs
        unaligned == IF seg < 1 THEN FALSE ELSE Len(modeData) % seg # 0
    IN  fn \in {"cfbEncryptRaw", "cfbDecryptRaw"} =>
          /\ (badSeg \/ unaligned) => pc \in {"call", "returned"}
          /\ (pc = "returned" /\ (badSeg \/ unaligned)) => ~ret.ok
          /\ (pc = "returned" /\ Len(iv) = bs /\ badSeg)
                => ret = Throw("Bad segmentSize")
          /\ (pc = "returned" /\ Len(iv) = bs /\ ~badSeg /\ unaligned)
                => ret = Throw(IF fn = "cfbEncryptRaw"
                               THEN "Plaintext must be multiple of segmentSize"
                               ELSE "Ciphertext must be multiple of segmentSize")
          /\ (pc = "returned" /\ Len(iv) = bs /\ ~badSeg /\ ~unaligned)
                => (ret.ok /\ Len(ret.val) = Len(modeData))

\* cfbEncryptRaw has rejected a segment size of blockSize + 1 that divides
\* the length of its input
C12_Witness ==
    /\ pc = "returned"
    /\ fn = "cfbEncryptRaw"
    /\ Len(iv) = cipher.blockSize
    /\ segmentSize = cipher.blockSize + 1
    /\ Len(modeData) = segmentSize
    /\ ret = Throw("Bad segmentSize")

\* the mode functions that take an IV or a counter
IvFns == {"cbcEncryptRaw", "cbcDecryptRaw", "cbcEncryptInplaceRaw",
          "cbcDecryptInplaceRaw", "cfbEncryptRaw", "cfbDecryptRaw", "ofbXorRaw",
          "ctrXorRaw"}

\* C13: uniform IV / counter length validation.  Every CBC, CFB, OFB and CTR
\* mode function called with an IV / counter whose length differs from
\* cipher.blockSize throws, whatever the data (empty data, unaligned data and
\* a bad segment size or out length included): its loop is never entered, no
\* register or output exists, the caller's buffers are as they were, and the
\* error is the one of the IV / counter check.
C13_IvLengthValidation ==
    (fn \in IvFns /\ Len(iv) # cipher.blockSize) =>
        /\ pc \in {"call", "returned"}
        /\ loc = NoLocals
        /\ regTrace = <<>>
        /\ modeData = given.data /\ outArg = given.out
        /\ pc = "returned" =>
              ret = Throw(IF fn = "ctrXorRaw" THEN "Counter must be blockSize bytes"
                          ELSE "IV must be blockSize bytes")

\* ctrXorRaw has thrown on a counter one byte short, its data being empty
C13_Witness ==
    /\ pc = "returned"
    /\ fn = "ctrXorRaw"
    /\ Len(iv) = cipher.blockSize - 1
    /\ modeData = <<>>
    /\ ret = Throw("Counter must be blockSize bytes")

\* C14: ECB.  ecbEncryptRaw / ecbDecryptRaw throw when the input length is
\* not a multiple of blockSize and never enter their loop then; otherwise
\* every output block written so far is encryptBlock / decryptBlock of the
\* input block at the same position and of nothing else, the blocks not yet
\* reached are untouched, no register is kept between blocks, and equal input
\* blocks have equal output blocks.
C14_EcbBlockwise ==
    LET bs == cipher.blockSize
        done == loc.i \div bs
        unaligned == Len(modeData) % bs # 0
    IN  fn \in {"ecbEncryptRaw", "ecbDecryptRaw"} =>
          /\ unaligned => (pc \in {"call", "returned"} /\ loc = NoLocals)
          /\ (pc = "returned" /\ unaligned) => ~ret.ok
          /\ (pc = "returned" /\ ~unaligned)
                => (ret.ok /\ loc.i = Len(modeData) /\ ret.val = loc.out)
          /\ (pc \in {"loop", "returned"} /\ ~unaligned) =>
                /\ \A k \in 0..(done - 1) :
                      Blk(loc.out, k, bs)
                        = IF fn = "ecbEncryptRaw"
                          THEN EncryptBlock(cipher, Blk(modeData, k, bs))
                          ELSE DecryptBlock(cipher, Blk(modeData, k, bs))
                /\ Sub(loc.out, loc.i, Len(modeData)) = Run(Len(modeData) - loc.i, 0)
                /\ \A j, k \in 0..(done - 1) :
                      Blk(modeData, j, bs) = Blk(modeData, k, bs)
                        => Blk(loc.out, j, bs) = Blk(loc.out, k, bs)
                /\ \A t \in 1..Len(regTrace) : regTrace[t] = <<>>

\* ecbEncryptRaw has returned three blocks, the first and the last of its
\* input being equal and the middle one different
C14_Witness ==
    /\ pc = "returned"
    /\ fn = "ecbEncryptRaw"
    /\ first = NoCall
    /\ ret.ok
    /\ Len(modeData) = 3 * cipher.blockSize
    /\ Blk(modeData, 0, cipher.blockSize) = Blk(modeData, 2, cipher.blockSize)
    /\ Blk(modeData, 0, cipher.blockSize) # Blk(modeData, 1, cipher.blockSize)
    /\ Blk(ret.val, 0, cipher.blockSize) = Blk(ret.val, 2, cipher.blockSize)
    /\ Blk(ret.val, 0, cipher.blockSize) # Blk(ret.val, 1, cipher.blockSize)

\* C15: no side effects on the caller's buffers.  At every point of a call,
\* whether it goes on to return or to throw, the caller's IV / counter is as
\* it was given; during a raw (allocating) mode function so are the data and
\* the out argument, the register and the output being new arrays and none of
\* the caller's; an in-place variant that throws has written nothing to out
\* (nor to data), and one that is given a separate out array never writes to
\* data.
C15_NoSideEffects ==
    /\ iv = given.iv
    /\ fn \in ModeFns => (modeData = given.data /\ outArg = given.out)
    /\ pc = "loop" =>
          /\ loc.regBuf = "new"
          /\ fn \in ModeFns => loc.outBuf = "new"
          /\ fn \in InplaceFns => loc.outBuf = (IF outArg.same THEN "data" ELSE "out")
    /\ (fn \in InplaceFns /\ pc = "returned" /\ ~ret.ok)
          => (outArg = given.out /\ modeData = given.data)
    /\ (fn \in InplaceFns /\ ~outArg.same) => modeData = given.data

\* cbcEncryptRaw has returned after two blocks or more, its register having
\* moved away from the IV, which the caller still holds as given
C15_Witness ==
    /\ pc = "returned"
    /\ fn = "cbcEncryptRaw"
    /\ first = NoCall
    /\ ret.ok
    /\ Len(regTrace) >= 3
    /\ loc.reg # given.iv
    /\ iv = given.iv
    /\ modeData = given.data

\* -------------------------------------------------------------- AES driver
AesKeyLens == {0, 15, 16, 17, 24, 32, 33}
AesKeyPatterns == {<<0, 1>>, <<0, 0>>, <<43, 126>>}
AesBlockPatterns == {<<0, 0>>, <<0, 17>>, <<255, 0>>, <<1, 1>>, <<128, 255>>}

\* keys of every accepted length and of rejected ones; blocks of 16 bytes
AesKeys ==
    {PatternKey(n, pat) : n \in AesKeyLens, pat \in AesKeyPatterns}
        \cup {<<128>> \o Run(15, 0)}
AesBlocks == {PatternKey(16, pat) : pat \in AesBlockPatterns}

AesInit ==
    /\ pc = "new"
    /\ RestIdle
    /\ BfIdle
    /\ TfbIdle
    /\ PadIdle
    /\ TfIdle
    /\ ModeIdle
    /\ FacIdle
    /\ aesKey \in AesKeys
    /\ aesIn \in AesBlocks
    /\ aesEngine = NoResult
    /\ aesOut = NoResult

AesOthers == <<padVars, tfVars, modeVars, facVars, bfVars, tfbVars, restVars>>

\* new AESRaw(key): the key length check, then expandKey
AesNew ==
    /\ pc = "new"
    /\ aesEngine' = AESRaw(aesKey)
    /\ pc' = IF aesEngine'.ok THEN "ready" ELSE "failed"
    /\ UNCHANGED <<aesKey, aesIn, aesOut, AesOthers>>

\* raw.encryptBlock(block, 0, out, 0): on aesIn, or on the block that
\* decryptBlock has just made of aesIn
AesEncryptBlock ==
    /\ pc \in {"ready", "decryptedFirst"}
    /\ aesOut' = Ok(aesEncryptBlock(aesEngine.val,
                                    IF pc = "ready" THEN aesIn ELSE aesOut.val))
    /\ pc' = IF pc = "ready" THEN "encrypted" ELSE "reencrypted"
    /\ UNCHANGED <<aesKey, aesEngine, aesIn, AesOthers>>

\* raw.decryptBlock(block, 0, out, 0): on the block just encrypted, or on
\* aesIn itself
AesDecryptBlock ==
    /\ pc \in {"ready", "encrypted"}
    /\ aesOut' = Ok(aesDecryptBlock(aesEngine.val,
                                    IF pc = "ready" THEN aesIn ELSE aesOut.val))
    /\ pc' = IF pc = "ready" THEN "decryptedFirst" ELSE "decrypted"
    /\ UNCHANGED <<aesKey, aesEngine, aesIn, AesOthers>>

AesNext ==
    \/ AesNew
    \/ AesEncryptBlock
    \/ AesDecryptBlock

SpecAES == AesInit /\ [][AesNext]_vars

\* the key 000102030405060708090a0b0c0d0e0f and the key 80 00 .. 00
KatKey == PatternKey(16, <<0, 1>>)
VarKey128 == <<128>> \o Run(15, 0)

\* C6 as the specification states it: under the key 000102..0e0f the all-zero
\* block encrypts to 0edd33d3c621e546455bd8ba1418bec8.
C6_KnownAnswerAsStated ==
    (pc = "encrypted" /\ aesKey = KatKey /\ aesIn = Run(16, 0))
        => aesOut = Ok(<<14, 221, 51, 211, 198, 33, 229, 70, 69, 91, 216, 186, 20, 24, 190, 200>>)

\* C6: AES known answers.  Under the key 000102..0e0f the all-zero block
\* encrypts to c6a13b37878f5b826f4f8162a1c8d879 and the block 00112233..ff
\* to 69c4e0d86a7b0430d8cdb78070b4c55a (FIPS-197 C.1);
\* 0edd33d3c621e546455bd8ba1418bec8 is the ciphertext of the all-zero block
\* under the key 80 00 .. 00; decryptBlock gives the block back.
C6_KnownAnswer ==
    /\ (pc = "encrypted" /\ aesKey = KatKey /\ aesIn = Run(16, 0))
         => aesOut = Ok(<<198, 161, 59, 55, 135, 143, 91, 130,
                          111, 79, 129, 98, 161, 200, 216, 121>>)
    /\ (pc = "encrypted" /\ aesKey = KatKey /\ aesIn = PatternKey(16, <<0, 17>>))
         => aesOut = Ok(<<105, 196, 224, 216, 106, 123, 4, 48,
                          216, 205, 183, 128, 112, 180, 197, 90>>)
    /\ (pc = "encrypted" /\ aesKey = VarKey128 /\ aesIn = Run(16, 0))
         => aesOut = Ok(<<14, 221, 51, 211, 198, 33, 229, 70, 69, 91, 216, 186, 20, 24, 190, 200>>)
    /\ pc = "decrypted" => aesOut = Ok(aesIn)

\* the all-zero block has been encrypted under the key 000102..0e0f
C6_Witness ==
    /\ pc = "encrypted"
    /\ aesKey = KatKey
    /\ aesIn = Run(16, 0)
    /\ aesEngine.ok
    /\ aesEngine.val.Nr = 10
    /\ aesOut.ok
    /\ aesOut.val[1] = 198

\* C17: AES key lengths and round counts.  new AESRaw(key) throws exactly
\* when the key length is none of 16, 24 and 32, with the key-length error and
\* for no other reason; the engine it builds otherwise has Nr = keyLen / 4 + 6
\* rounds (10, 12, 14) and exactly Nr + 1 round keys of 16 bytes each, the
\* first ones being the key itself.
C17_AesKeyLengths ==
    pc # "new" =>
        /\ aesEngine.ok <=> Len(aesKey) \in {16, 24, 32}
        /\ ~aesEngine.ok => aesEngine = Throw("AES key must be 16/24/32 bytes")
        /\ aesEngine.ok =>
              LET e == aesEngine.val
              IN  /\ e.Nr = (Len(aesKey) \div 4) + 6
                  /\ e.Nr = (CASE Len(aesKey) = 16 -> 10
                               [] Len(aesKey) = 24 -> 12
                               [] OTHER -> 14)
                  /\ Len(e.roundKeys) = e.Nr + 1
                  /\ \A r \in 1..Len(e.roundKeys) :
                        /\ Len(e.roundKeys[r]) = 16
                        /\ \A i \in 1..16 : e.roundKeys[r][i] \in Byte
                  /\ Sub(e.roundKeys[1] \o e.roundKeys[2], 0, Len(aesKey)) = aesKey

\* an engine for a 24-byte key has been built: 12 rounds, 13 round keys
C17_Witness ==
    /\ pc = "ready"
    /\ Len(aesKey) = 24
    /\ aesEngine.ok
    /\ aesEngine.val.Nr = 12
    /\ Len(aesEngine.val.roundKeys) = 13

\* C18: AES decryptBlock is the exact inverse of encryptBlock.  For every
\* key of 16, 24 or 32 bytes and every 16-byte block B,
\* decryptBlock(encryptBlock(B)) = B and encryptBlock(decryptBlock(B)) = B;
\* and each inverse step undoes its forward step, both ways round: the
\* inverse S-box the S-box, invShiftRows shiftRows, invMixColumns (matrix
\* {14, 11, 13, 9}) mixColumns, and addRoundKey itself.
C18_AesInverse ==
    /\ pc = "decrypted" => aesOut = Ok(aesIn)
    /\ pc = "reencrypted" => aesOut = Ok(aesIn)
    /\ pc = "ready" =>
          /\ invSubBytes(subBytes(aesIn)) = aesIn
          /\ subBytes(invSubBytes(aesIn)) = aesIn
          /\ invShiftRows(shiftRows(aesIn)) = aesIn
          /\ shiftRows(invShiftRows(aesIn)) = aesIn
          /\ invMixColumns(mixColumns(aesIn)) = aesIn
          /\ mixColumns(invMixColumns(aesIn)) = aesIn
          /\ \A r \in 0..aesEngine.val.Nr :
                addRoundKey(aesEngine.val, addRoundKey(aesEngine.val, aesIn, r), r)
                  = aesIn

\* under a 32-byte key a block has been decrypted first and encrypted back
C18_Witness ==
    /\ pc = "reencrypted"
    /\ Len(aesKey) = 32
    /\ aesIn = PatternKey(16, <<128, 255>>)
    /\ aesOut = Ok(aesIn)
    /\ aesDecryptBlock(aesEngine.val, aesIn) # aesIn

\* ------------------------------------------------- whole calls, runModeRaw
RECURSIVE RunLoop(_, _, _, _, _)
\* the iteration that produced the locals n is complete: on to the next
RunNext(f, c, d, seg, n) ==
    IF Len(n.out) = Len(d) THEN RunLoop(f, c, d, seg, n) ELSE n.out

\* the loop of the mode function f run to its end, from the locals l
RunLoop(f, c, d, seg, l) ==
    IF l.i >= Len(d) THEN l.out
    ELSE RunNext(f, c, d, seg, Iter(f, c, d, seg, l))

\* a whole call of the mode function f: what it returns or throws
CallMode(f, c, d, v, seg) ==
    LET b == Begin(f, c, d, v, seg)
    IN  IF b.ok THEN Ok(RunLoop(f, c, d, seg, b.val)) ELSE b

\* an option or argument that was not given (undefined)
Undefined == <<-1>>

\* runModeRaw(cipher, mode, data, iv, encrypt)
runModeRaw(c, mode, d, v, encrypting) ==
    IF mode # "ECB" /\ v = Undefined THEN Throw("CBC mode requires IV")
    ELSE CallMode(IF mode = "ECB"
                  THEN (IF encrypting THEN "ecbEncryptRaw" ELSE "ecbDecryptRaw")
                  ELSE (IF encrypting THEN "cbcEncryptRaw" ELSE "cbcDecryptRaw"),
                  c, d, v, c.blockSize)

\* the allocating function an in-place function is the variant of
AllocatingOf(f) ==
    CASE f = "ecbEncryptInplaceRaw" -> "ecbEncryptRaw"
      [] f = "ecbDecryptInplaceRaw" -> "ecbDecryptRaw"
      [] f = "cbcEncryptInplaceRaw" -> "cbcEncryptRaw"
      [] f = "cbcDecryptInplaceRaw" -> "cbcDecryptRaw"

\* C25: the in-place ECB and CBC functions are equivalent to the allocating
\* ones.  With out of the length of data, an in-place function succeeds
\* exactly when the allocating one does on the same cipher, data and IV, and
\* then out holds (and the call returns) the bytes the allocating function
\* returns, also when out is the data array itself; with out of any other
\* length it fails.
C25_InplaceEquivalent ==
    (pc = "returned" /\ fn \in InplaceFns) =>
        LET alloc == CallMode(AllocatingOf(fn), cipher, given.data, given.iv,
                              cipher.blockSize)
            outLen == Len(OutBytes(given.out, given.data))
        IN  /\ outLen # Len(given.data) => ~ret.ok
            /\ outLen = Len(given.data) =>
                  /\ ret.ok <=> alloc.ok
                  /\ ret.ok => /\ OutBytes(outArg, modeData) = alloc.val
                               /\ ret.val = alloc.val

\* cbcDecryptInplaceRaw has returned with out being the data array, over
\* more than one block: the array now holds other bytes than it was given
C25_Witness ==
    /\ pc = "returned"
    /\ fn = "cbcDecryptInplaceRaw"
    /\ given.out = OutIsData
    /\ ret.ok
    /\ Len(given.data) > cipher.blockSize
    /\ modeData # given.data
    /\ ret.val = modeData
    /\ Sub(modeData, 0, cipher.blockSize) # Sub(modeData, cipher.blockSize, 2 * cipher.blockSize)

\* ------------------------------------------------------------------ facades
\* BlowfishRaw (blockSize 8) and TwofishRaw (blockSize 16) behind the
\* BlockCipher interface: a keyed permutation of the block, the key repeated
\* over the block as BlowfishRaw repeats it over its schedule
EngineOf(bs, key) == TestCipher(bs, [j \in 1..bs |-> key[((j - 1) % Len(key)) + 1]])

\* the options with their defaults applied: mode = "CBC", padding = "PKCS7"
ModeOf(opts) == IF opts.mode = "undefined" THEN "CBC" ELSE opts.mode
PaddingOf(opts) == IF opts.padding = "undefined" THEN "PKCS7" ELSE opts.padding

\* FriendlyCipher constructor, given the engine built by the subclass
FriendlyCipher(class, raw, opts) ==
    IF ModeOf(opts) = "CBC" /\ (opts.iv = Undefined \/ Len(opts.iv) # raw.blockSize)
    THEN Throw("CBC mode requires IV of blockSize bytes")
    ELSE Ok([class |-> class, raw |-> raw, mode |-> ModeOf(opts), iv |-> opts.iv,
             counter |-> Undefined, segmentSize |-> -1, padding |-> PaddingOf(opts)])

\* new BlowfishCipher(key, opts) / new TwofishCipher(key, opts)
BlowfishCipher(key, opts) == FriendlyCipher("BlowfishCipher", EngineOf(8, key), opts)
TwofishCipher(key, opts) == FriendlyCipher("TwofishCipher", EngineOf(16, key), opts)

\* new AESCipher(key, opts) without the checks of the IV and the counter
AESCipherUnchecked(key, opts) ==
    LET raw == AESRaw(key)
    IN  IF ~raw.ok THEN raw
        ELSE Ok([class |-> "AESCipher", raw |-> raw.val, mode |-> ModeOf(opts),
                 iv |-> opts.iv, counter |-> opts.counter,
                 segmentSize |-> opts.segmentSize, padding |-> PaddingOf(opts)])

\* new AESCipher(key, opts)
AESCipher(key, opts) ==
    LET raw == AESRaw(key)
        mode == ModeOf(opts)
    IN  IF ~raw.ok THEN raw
        ELSE IF mode \in {"CBC", "CFB", "OFB"}
                  /\ (opts.iv = Undefined \/ Len(opts.iv) # raw.val.blockSize)
        THEN Throw("mode requires IV of blockSize bytes")
        ELSE IF mode = "CTR"
                  /\ (opts.counter = Undefined \/ Len(opts.counter) # raw.val.blockSize)
        THEN Throw("CTR requires counter of blockSize bytes")
        ELSE Ok([class |-> "AESCipher", raw |-> raw.val, mode |-> mode,
                 iv |-> opts.iv, counter |-> opts.counter,
                 segmentSize |-> opts.segmentSize, padding |-> PaddingOf(opts)])

NewCipher(args) ==
    CASE args.class = "AESCipher" -> AESCipher(args.key, args.opts)
      [] args.class = "BlowfishCipher" -> BlowfishCipher(args.key, args.opts)
      [] OTHER -> TwofishCipher(args.key, args.opts)

\* the ECB / CBC branch of encrypt: pad if PKCS7, then runModeRaw
blockModeEncrypt(f, p) ==
    LET input == IF f.padding = "PKCS7" THEN pkcs7Pad(p, f.raw.blockSize) ELSE Ok(p)
    IN  IF ~input.ok THEN input
        ELSE runModeRaw(f.raw, f.mode, input.val, f.iv, TRUE)

\* the ECB / CBC branch of decrypt: runModeRaw, then unpad if PKCS7
blockModeDecrypt(f, ct) ==
    LET out == runModeRaw(f.raw, f.mode, ct, f.iv, FALSE)
    IN  IF ~out.ok THEN out
        ELSE IF f.padding = "PKCS7" THEN pkcs7Unpad(out.val, f.raw.blockSize)
        ELSE out

\* this.segmentSize ?? bs
SegmentSizeOf(f) == IF f.segmentSize = -1 THEN f.raw.blockSize ELSE f.segmentSize

\* the stream-mode branches of AESCipher.encrypt / decrypt: the function
\* called and the iv / counter and segment size it is given
StreamFn(f, encrypting) ==
    IF f.mode = "CFB" THEN (IF encrypting THEN "cfbEncryptRaw" ELSE "cfbDecryptRaw")
    ELSE IF f.mode = "OFB" THEN "ofbXorRaw"
    ELSE "ctrXorRaw"
StreamIv(f) == IF f.mode = "CTR" THEN f.counter ELSE f.iv
StreamSeg(f) == IF f.mode = "CFB" THEN SegmentSizeOf(f) ELSE f.raw.blockSize

\* FriendlyCipher.encrypt / AESCipher.encrypt
encrypt(f, p) ==
    IF f.class # "AESCipher" \/ f.mode \in {"ECB", "CBC"} THEN blockModeEncrypt(f, p)
    ELSE CallMode(StreamFn(f, TRUE), f.raw, p, StreamIv(f), StreamSeg(f))

\* FriendlyCipher.decrypt / AESCipher.decrypt
decrypt(f, ct) ==
    IF f.class # "AESCipher" \/ f.mode \in {"ECB", "CBC"} THEN blockModeDecrypt(f, ct)
    ELSE CallMode(StreamFn(f, FALSE), f.raw, ct, StreamIv(f), StreamSeg(f))

\* ------------------------------------------------------------ facade driver
MaxPlainBlocks == 2

FacadeBlockSize(class) == IF class = "BlowfishCipher" THEN 8 ELSE 16

\* constructor options: the block modes with every padding and IV choice,
\* the stream modes of AESCipher with the arguments they read
FacadeOpts(class) ==
    LET bs == FacadeBlockSize(class)
        ivs == {Undefined, PatternKey(bs, <<16, 3>>), Run(bs - 1, 0), <<>>}
        opt(m, v, c, seg, pad) ==
            [mode |-> m, iv |-> v, counter |-> c, segmentSize |-> seg, padding |-> pad]
    IN  {opt(m, v, Undefined, -1, pad) :
            m \in {"undefined", "ECB", "CBC"}, v \in ivs,
            pad \in {"undefined", "PKCS7", "None"}}
        \cup (IF class # "AESCipher" THEN {}
              ELSE {opt("CFB", v, Undefined, seg, "undefined") :
                        v \in ivs, seg \in {-1, 1}}
                   \cup {opt("OFB", v, Undefined, -1, "undefined") : v \in ivs}
                   \cup {opt("CTR", Undefined, c, -1, "undefined") :
                            c \in {Undefined, Run(15, 255) \o <<254>>, Run(15, 0),
                                   Run(17, 0)}})

FacadeKeys(class) ==
    IF class = "AESCipher" THEN {PatternKey(16, <<0, 1>>), PatternKey(15, <<0, 1>>)}
    ELSE {PatternKey(5, <<3, 7>>)}

\* plaintexts of length 0, 1, bs - 1, bs, bs + 1 and of whole blocks
FacadePlains(class) ==
    LET bs == FacadeBlockSize(class)
    IN  {PatternKey(n, pat) :
            n \in {0, 1, bs - 1, bs, bs + 1, MaxPlainBlocks * bs},
            pat \in {<<65, 1>>, <<1, 0>>}}

FacadeInit ==
    /\ pc = "new"
    /\ RestIdle
    /\ BfIdle
    /\ TfbIdle
    /\ PadIdle
    /\ TfIdle
    /\ ModeIdle
    /\ AesIdle
    /\ \E class \in {"AESCipher", "BlowfishCipher", "TwofishCipher"} :
          /\ facArgs \in {[class |-> class, key |-> k, opts |-> o] :
                             k \in FacadeKeys(class), o \in FacadeOpts(class)}
          /\ facPlain \in FacadePlains(class)
    /\ facade = NoResult
    /\ facEncrypted = NoResult
    /\ facDecrypted = NoResult

FacadeOthers == <<padVars, tfVars, modeVars, aesVars, bfVars, tfbVars, restVars>>

\* new AESCipher / BlowfishCipher / TwofishCipher (key, opts)
FacadeNew ==
    /\ pc = "new"
    /\ facade' = NewCipher(facArgs)
    /\ pc' = IF facade'.ok THEN "ready" ELSE "failed"
    /\ UNCHANGED <<facArgs, facPlain, facEncrypted, facDecrypted, FacadeOthers>>

\* cipher.encrypt(plain)
FacadeEncrypt ==
    /\ pc = "ready"
    /\ facEncrypted' = encrypt(facade.val, facPlain)
    /\ pc' = "encrypted"
    /\ UNCHANGED <<facArgs, facade, facPlain, facDecrypted, FacadeOthers>>

\* cipher.decrypt(ct) on the ciphertext encrypt returned
FacadeDecrypt ==
    /\ pc = "encrypted"
    /\ facEncrypted.ok
    /\ facDecrypted' = decrypt(facade.val, facEncrypted.val)
    /\ pc' = "decrypted"
    /\ UNCHANGED <<facArgs, facade, facPlain, facEncrypted, FacadeOthers>>

FacadeNext ==
    \/ FacadeNew
    \/ FacadeEncrypt
    \/ FacadeDecrypt

SpecFacade == FacadeInit /\ [][FacadeNext]_vars

\* C1: facade round trip.  For a facade cipher built with mode ECB or CBC
\* and PKCS7 padding, encrypt accepts every plaintext, decrypt of what
\* encrypt returned never throws, and it returns the plaintext.
C1_FacadeRoundTrip ==
    (facade.ok /\ facade.val.mode \in {"ECB", "CBC"} /\ facade.val.padding = "PKCS7")
        => /\ pc = "encrypted" => facEncrypted.ok
           /\ pc = "decrypted" => facDecrypted = Ok(facPlain)

\* the errors of a missing or wrong-length IV / counter that runModeRaw and
\* the raw mode functions throw
IvErrors ==
    {"CBC mode requires IV", "IV must be blockSize bytes",
     "Counter must be blockSize bytes"}

add32(a, b) ==
    LET s4 == a[4] + b[4]
        s3 == a[3] + b[3] + (s4 \div 256)
        s2 == a[2] + b[2] + (s3 \div 256)
        s1 == a[1] + b[1] + (s2 \div 256)
    IN  <<s1 % 256, s2 % 256, s3 % 256, s4 % 256>>

\* (a ^ b) >>> 0
xor32(a, b) == WXor(a, b)

\* this.F(x) of the engine bf = [P |-> this.P, S |-> this.S]
F(bf, x) ==
    add32(xor32(add32(bf.S[1][x[1] + 1], bf.S[2][x[2] + 1]), bf.S[3][x[3] + 1]),
          bf.S[4][x[4] + 1])

\* one iteration of the round loops: L ^= P[i]; R ^= F(L); [L, R] = [R, L].
\* used lists the indices of P read so far.
bfRound(bf, st, i) ==
    LET L1 == xor32(st.L, bf.P[i + 1])
        R1 == xor32(st.R, F(bf, L1))
    IN  [L |-> R1, R |-> L1, used |-> Append(st.used, i)]

RECURSIVE encLoop(_, _, _)
\* the iteration that produced nx is complete: on to i + 1
encLoopNext(bf, nx, i) == IF Len(nx.used) > 0 THEN encLoop(bf, nx, i + 1) ELSE nx

\* for (let i = 0; i < 16; i++) of encBlockWords, entered at i
encLoop(bf, st, i) ==
    IF i >= 16 THEN st ELSE encLoopNext(bf, bfRound(bf, st, i), i)

\* encBlockWords(L, R): the loop, the swap back, R ^= P[16], L ^= P[17]
encBlockWords(bf, L, R) ==
    LET st == encLoop(bf, [L |-> L, R |-> R, used |-> <<>>], 0)
    IN  [L |-> xor32(st.R, bf.P[18]), R |-> xor32(st.L, bf.P[17]),
         used |-> st.used \o <<16, 17>>]

RECURSIVE decLoop(_, _, _)
\* the iteration that produced nx is complete: on to i - 1
decLoopNext(bf, nx, i) == IF Len(nx.used) > 0 THEN decLoop(bf, nx, i - 1) ELSE nx

\* for (let i = 17; i > 1; i--) of decBlockWords, entered at i
decLoop(bf, st, i) ==
    IF i <= 1 THEN st ELSE decLoopNext(bf, bfRound(bf, st, i), i)

\* decBlockWords ending with R ^= P[0], L ^= P[1]
decBlockWordsSwappedEnd(bf, L, R) ==
    LET st == decLoop(bf, [L |-> L, R |-> R, used |-> <<>>], 17)
    IN  [L |-> xor32(st.R, bf.P[2]), R |-> xor32(st.L, bf.P[1]),
         used |-> st.used \o <<0, 1>>]

\* decBlockWords(L, R): the loop, the swap back, R ^= P[1], L ^= P[0]
decBlockWords(bf, L, R) ==
    LET st == decLoop(bf, [L |-> L, R |-> R, used |-> <<>>], 17)
    IN  [L |-> xor32(st.R, bf.P[1]), R |-> xor32(st.L, bf.P[2]),
         used |-> st.used \o <<1, 0>>]

\* ----------------------------------------------------------- Blowfish driver
MaxSeed == 2

\* word n of the table content numbered seed: content 0 is all 0xFFFFFFFF,
\* the others spread over the byte values
TableWord(seed, n) ==
    IF seed = 0 THEN <<255, 255, 255, 255>>
    ELSE <<(seed * (n + 1) * 37) % 256, S[((n * seed + 7) % 256) + 1],
           (n * 3 + seed * 5) % 256, Si[((n + seed) % 256) + 1]>>

\* contents of this.P and this.S
BfPs == {[i \in 1..18 |-> TableWord(seed, i + 1000)] : seed \in 0..MaxSeed}
BfSs ==
    {[b \in 1..4 |-> [i \in 1..256 |-> TableWord(seed, 256 * b + i)]] :
        seed \in 0..MaxSeed}

BfWords ==
    {WZero, <<255, 255, 255, 255>>, <<1, 35, 69, 103>>, <<137, 171, 205, 239>>,
     <<128, 0, 0, 1>>}

BfInit ==
    /\ pc = "ready"
    /\ RestIdle
    /\ PadIdle
    /\ TfIdle
    /\ ModeIdle
    /\ AesIdle
    /\ FacIdle
    /\ TfbIdle
    /\ bfP \in BfPs
    /\ bfS \in BfSs
    /\ bfIn \in BfWords \X BfWords
    /\ bfOut = NoResult

BfOthers == <<padVars, tfVars, modeVars, aesVars, facVars, tfbVars, restVars>>

\* the engine as its methods see it
BfThis == [P |-> bfP, S |-> bfS]

\* [eL, eR] = this.encBlockWords(L, R)
BfEncBlockWords ==
    /\ pc = "ready"
    /\ bfOut' = Ok(encBlockWords(BfThis, bfIn[1], bfIn[2]))
    /\ pc' = "encrypted"
    /\ UNCHANGED <<bfP, bfS, bfIn, BfOthers>>

\* [dL, dR] = this.decBlockWords(eL, eR)
BfDecBlockWords ==
    /\ pc = "encrypted"
    /\ bfOut' = Ok(decBlockWords(BfThis, bfOut.val.L, bfOut.val.R))
    /\ pc' = "decrypted"
    /\ UNCHANGED <<bfP, bfS, bfIn, BfOthers>>

BfNext ==
    \/ BfEncBlockWords
    \/ BfDecBlockWords

SpecBlowfish == BfInit /\ [][BfNext]_vars

\* C19: Blowfish decrypt inverts encrypt for any schedule.  Whatever P and
\* the S-boxes hold, decBlockWords(encBlockWords(L, R)) = (L, R) for every
\* pair of words; encBlockWords reads P[0] .. P[15] in its rounds and then
\* P[16] and P[17], decBlockWords reads P[17] down to P[2] in its rounds and
\* then P[1] and P[0].
C19_BlowfishInverse ==
    /\ pc = "encrypted" =>
          bfOut.val.used = <<0, 1, 2, 3, 4, 5, 6, 7, 8, 9, 10, 11, 12, 13, 14, 15, 16, 17>>
    /\ pc = "decrypted" =>
          /\ <<bfOut.val.L, bfOut.val.R>> = bfIn
          /\ bfOut.val.used
               = <<17, 16, 15, 14, 13, 12, 11, 10, 9, 8, 7, 6, 5, 4, 3, 2, 1, 0>>

\* a pair of words has come back through tables that are not all equal, the
\* ciphertext words differing from it
C19_Witness ==
    /\ pc = "decrypted"
    /\ bfP[1] # bfP[2]
    /\ bfS[1][1] # bfS[1][2]
    /\ bfIn = <<<<1, 35, 69, 103>>, <<137, 171, 205, 239>>>>
    /\ <<bfOut.val.L, bfOut.val.R>> = bfIn
    /\ <<encBlockWords(BfThis, bfIn[1], bfIn[2]).L,
         encBlockWords(BfThis, bfIn[1], bfIn[2]).R>> # bfIn

\* ------------------------------------------------------------- Twofish block
ROUNDS == 16
ROUND_SUBKEYS == 8

\* (x >>> 1) | (x << 31) and (x << 1) | (x >>> 31) on words
ror1(x) ==
    <<(x[1] \div 2) + 128 * (x[4] % 2), (x[2] \div 2) + 128 * (x[1] % 2),
      (x[3] \div 2) + 128 * (x[2] % 2), (x[4] \div 2) + 128 * (x[3] % 2)>>
rol1(x) ==
    <<((x[1] * 2) % 256) + (x[2] \div 128), ((x[2] * 2) % 256) + (x[3] \div 128),
      ((x[3] * 2) % 256) + (x[4] \div 128), ((x[4] * 2) % 256) + (x[1] \div 128)>>

\* x ^= a + b + c: the sum of three words as ^= truncates it, modulo 2^32
Sum32(a, b, c) == add32(add32(a, b), c)

\* buf[i] | 0: a byte of the array, 0 beyond its end
ByteAt(buf, i) == IF i < Len(buf) THEN buf[i + 1] ELSE 0

\* buf[io] | buf[io+1] << 8 | buf[io+2] << 16 | buf[io+3] << 24
LoadLE(buf, io) ==
    <<ByteAt(buf, io + 3), ByteAt(buf, io + 2), ByteAt(buf, io + 1), ByteAt(buf, io)>>

\* the table entry at 0-based index i
At(table, i) == table[i + 1]

\* t0: sBox[(x << 1) & 0x1fe] ^ sBox[((x >>> 7) & 0x1fe) + 1]
\*   ^ sBox[0x200 + ((x >>> 15) & 0x1fe)] ^ sBox[0x200 + ((x >>> 23) & 0x1fe) + 1]
Fe32_0(sBox, x) ==
    WXor(WXor(At(sBox, 2 * x[4]), At(sBox, 2 * x[3] + 1)),
         WXor(At(sBox, 512 + 2 * x[2]), At(sBox, 512 + 2 * x[1] + 1)))

\* t1: sBox[(x >>> 23) & 0x1fe] ^ sBox[((x << 1) & 0x1fe) + 1]
\*   ^ sBox[0x200 + ((x >>> 7) & 0x1fe)] ^ sBox[0x200 + ((x >>> 15) & 0x1fe) + 1]
Fe32_3(sBox, x) ==
    WXor(WXor(At(sBox, 2 * x[1]), At(sBox, 2 * x[4] + 1)),
         WXor(At(sBox, 512 + 2 * x[3]), At(sBox, 512 + 2 * x[2] + 1)))

\* one pass of the loop of encrypt (two rounds).  st holds x0 .. x3 and k;
\* used lists the indices of sKey read by the rounds so far.
encRoundPair(sess, st) ==
    LET t0 == Fe32_0(sess.sBox, st.x0)
        t1 == Fe32_3(sess.sBox, st.x1)
        x2 == ror1(WXor(st.x2, Sum32(t0, t1, At(sess.sKey, st.k))))
        x3 == WXor(rol1(st.x3), Sum32(t0, add32(t1, t1), At(sess.sKey, st.k + 1)))
        u0 == Fe32_0(sess.sBox, x2)
        u1 == Fe32_3(sess.sBox, x3)
        x0 == ror1(WXor(st.x0, Sum32(u0, u1, At(sess.sKey, st.k + 2))))
        x1 == WXor(rol1(st.x1), Sum32(u0, add32(u1, u1), At(sess.sKey, st.k + 3)))
    IN  [x0 |-> x0, x1 |-> x1, x2 |-> x2, x3 |-> x3, k |-> st.k + 4,
         used |-> st.used \o <<st.k, st.k + 1, st.k + 2, st.k + 3>>]

RECURSIVE encPairs(_, _, _)
\* the pass that produced nx is complete: on to R + 2
encPairsNext(sess, nx, R) == IF nx.k > 0 THEN encPairs(sess, nx, R + 2) ELSE nx

\* for (let R = 0; R < ROUNDS; R += 2) of encrypt, entered at R
encPairs(sess, st, R) ==
    IF R >= ROUNDS THEN st ELSE encPairsNext(sess, encRoundPair(sess, st), R)

\* outputBlock(out, 0, x0, x1, x2, x3): each word least significant byte first
outputBlock(x0, x1, x2, x3) ==
    <<x0[4], x0[3], x0[2], x0[1], x1[4], x1[3], x1[2], x1[1],
      x2[4], x2[3], x2[2], x2[1], x3[4], x3[3], x3[2], x3[1]>>

\* encrypt(plain, 0, cipher, 0, [sBox, sKey]), cipher having room bytes: the
\* 16 bytes written, with the indices of sKey the rounds read
tfEncryptBlock(plain, room, sess) ==
    IF room < 16 THEN Throw("Insufficient space to write ciphertext block.")
    ELSE LET st == encPairs(sess,
                            [x0 |-> WXor(LoadLE(plain, 0), At(sess.sKey, 0)),
                             x1 |-> WXor(LoadLE(plain, 4), At(sess.sKey, 1)),
                             x2 |-> WXor(LoadLE(plain, 8), At(sess.sKey, 2)),
                             x3 |-> WXor(LoadLE(plain, 12), At(sess.sKey, 3)),
                             k |-> ROUND_SUBKEYS, used |-> <<>>], 0)
         IN  Ok([bytes |-> outputBlock(WXor(st.x2, At(sess.sKey, 4)),
                                       WXor(st.x3, At(sess.sKey, 5)),
                                       WXor(st.x0, At(sess.sKey, 6)),
                                       WXor(st.x1, At(sess.sKey, 7))),
                 used |-> st.used])

\* decRoundPair rotating as encrypt does: ror1 after the XOR on x2 and x0,
\* rol1 before it on x3 and x1
decRoundPairForwardRotations(sess, st) ==
    LET t0 == Fe32_0(sess.sBox, st.x2)
        t1 == Fe32_3(sess.sBox, st.x3)
        x1 == WXor(rol1(st.x1), Sum32(t0, add32(t1, t1), At(sess.sKey, st.k)))
        x0 == ror1(WXor(st.x0, Sum32(t0, t1, At(sess.sKey, st.k - 1))))
        u0 == Fe32_0(sess.sBox, x0)
        u1 == Fe32_3(sess.sBox, x1)
        x3 == WXor(rol1(st.x3), Sum32(u0, add32(u1, u1), At(sess.sKey, st.k - 2)))
        x2 == ror1(WXor(st.x2, Sum32(u0, u1, At(sess.sKey, st.k - 3))))
    IN  [x0 |-> x0, x1 |-> x1, x2 |-> x2, x3 |-> x3, k |-> st.k - 4,
         used |-> st.used \o <<st.k, st.k - 1, st.k - 2, st.k - 3>>]

\* one pass of the loop of decrypt (two rounds)
decRoundPair(sess, st) ==
    LET t0 == Fe32_0(sess.sBox, st.x2)
        t1 == Fe32_3(sess.sBox, st.x3)
        x1 == ror1(WXor(st.x1, Sum32(t0, add32(t1, t1), At(sess.sKey, st.k))))
        x0 == WXor(rol1(st.x0), Sum32(t0, t1, At(sess.sKey, st.k - 1)))
        u0 == Fe32_0(sess.sBox, x0)
        u1 == Fe32_3(sess.sBox, x1)
        x3 == ror1(WXor(st.x3, Sum32(u0, add32(u1, u1), At(sess.sKey, st.k - 2))))
        x2 == WXor(rol1(st.x2), Sum32(u0, u1, At(sess.sKey, st.k - 3)))
    IN  [x0 |-> x0, x1 |-> x1, x2 |-> x2, x3 |-> x3, k |-> st.k - 4,
         used |-> st.used \o <<st.k, st.k - 1, st.k - 2, st.k - 3>>]

RECURSIVE decPairs(_, _, _)
\* the pass that produced nx is complete: on to R + 2
decPairsNext(sess, nx, R) == IF nx.k > 0 THEN decPairs(sess, nx, R + 2) ELSE nx

\* for (let R = 0; R < ROUNDS; R += 2) of decrypt, entered at R
decPairs(sess, st, R) ==
    IF R >= ROUNDS THEN st ELSE decPairsNext(sess, decRoundPair(sess, st), R)

\* decrypt(cipher, 0, plain, 0, [sBox, sKey]), plain having room bytes
tfDecryptBlock(ct, room, sess) ==
    IF Len(ct) < 16 THEN Throw("Incomplete ciphertext block.")
    ELSE IF room < 16 THEN Throw("Insufficient space to write plaintext block.")
    ELSE LET st == decPairs(sess,
                            [x2 |-> WXor(LoadLE(ct, 0), At(sess.sKey, 4)),
                             x3 |-> WXor(LoadLE(ct, 4), At(sess.sKey, 5)),
                             x0 |-> WXor(LoadLE(ct, 8), At(sess.sKey, 6)),
                             x1 |-> WXor(LoadLE(ct, 12), At(sess.sKey, 7)),
                             k |-> ROUND_SUBKEYS + 2 * ROUNDS - 1, used |-> <<>>], 0)
         IN  Ok([bytes |-> outputBlock(WXor(st.x0, At(sess.sKey, 0)),
                                       WXor(st.x1, At(sess.sKey, 1)),
                                       WXor(st.x2, At(sess.sKey, 2)),
                                       WXor(st.x3, At(sess.sKey, 3))),
                 used |-> st.used])

\* ------------------------------------------------------ Twofish block driver
\* contents of the sBox table (1024 words) and of the 40 subkeys
TfSBoxes == {[i \in 1..1024 |-> TableWord(seed, i)] : seed \in 0..MaxSeed}
TfSKeys == {[i \in 1..40 |-> TableWord(seed, 2000 + 7 * i)] : seed \in 0..MaxSeed}

\* blocks of 16 bytes, and one of 15
TfBlocks ==
    {PatternKey(16, pat) :
        pat \in {<<0, 0>>, <<255, 0>>, <<0, 17>>, <<1, 1>>, <<128, 255>>, <<254, 3>>}}
      \cup {PatternKey(15, <<9, 5>>)}

\* the bytes of room an output array has: a block, or a byte less
Rooms == {15, 16}

TfbInit ==
    /\ pc = "ready"
    /\ RestIdle
    /\ PadIdle
    /\ TfIdle
    /\ ModeIdle
    /\ AesIdle
    /\ FacIdle
    /\ BfIdle
    /\ tfSBox \in TfSBoxes
    /\ tfSKey \in TfSKeys
    /\ tfIn \in TfBlocks
    /\ tfOut = NoResult

TfbOthers == <<padVars, tfVars, modeVars, aesVars, facVars, bfVars, restVars>>

\* the session as encrypt and decrypt destructure it
TfSessionOf == [sBox |-> tfSBox, sKey |-> tfSKey]

\* tfEncryptBlock(inp, 0, out, 0, this.session)
TfEncrypt ==
    /\ pc = "ready"
    /\ \E room \in Rooms : tfOut' = tfEncryptBlock(tfIn, room, TfSessionOf)
    /\ pc' = IF tfOut'.ok THEN "encrypted" ELSE "failed"
    /\ UNCHANGED <<tfSBox, tfSKey, tfIn, TfbOthers>>

\* tfDecryptBlock(ct, 0, out, 0, this.session) on the block just written
TfDecrypt ==
    /\ pc = "encrypted"
    /\ \E room \in Rooms : tfOut' = tfDecryptBlock(tfOut.val.bytes, room, TfSessionOf)
    /\ pc' = IF tfOut'.ok THEN "decrypted" ELSE "failed"
    /\ UNCHANGED <<tfSBox, tfSKey, tfIn, TfbOthers>>

TfbNext ==
    \/ TfEncrypt
    \/ TfDecrypt

SpecTwofishBlock == TfbInit /\ [][TfbNext]_vars

\* the sequence <<a, a - 1, .., b>>
DownFrom(a, b) == [i \in 1..(a - b + 1) |-> a - i + 1]

\* C20: Twofish decrypt inverts encrypt for any session.  Whatever the sBox
\* table and the 40 subkeys hold, decrypt(encrypt(B)) = B for every 16-byte
\* block B; the rounds of encrypt read the subkeys 8, 9, .., 39 and those of
\* decrypt read them from 39 down to 8.
C20_TwofishInverse ==
    /\ pc = "encrypted" =>
          /\ Len(tfOut.val.bytes) = 16
          /\ tfOut.val.used = [i \in 1..32 |-> i + 7]
    /\ pc = "decrypted" =>
          /\ tfOut.val.used = DownFrom(39, 8)
          /\ Len(tfIn) = 16 => tfOut.val.bytes = tfIn

\* a 16-byte block has come back through a session whose tables are not
\* constant, its ciphertext differing from it
C20_Witness ==
    /\ pc = "decrypted"
    /\ tfSBox[1] # tfSBox[2]
    /\ tfSKey[9] # tfSKey[10]
    /\ tfIn = PatternKey(16, <<0, 17>>)
    /\ tfOut.val.bytes = tfIn
    /\ tfEncryptBlock(tfIn, 16, TfSessionOf).val.bytes # tfIn

\* ------------------------------------------- engines after construction
\* A call of a block method as it leaves things: this is the engine's fields
\* once the method has returned, out the block it wrote (or what it threw).

\* addRoundKey assigning rk[i] ^= state[i]: the round key takes the sum
rkXoredInto(aes, state, round) == addRoundKey(aes, state, round)

\* this.roundKeys[round] once addRoundKey(state, round) has run: the loop
\* assigns state[i] ^= rk[i] and leaves rk as it was
rkAfterAddRoundKey(aes, state, round) == aes.roundKeys[round + 1]

\* AESRaw.encryptBlock / decryptBlock on the block inp; the first addRoundKey
\* of the method takes the block as loaded, with round 0 or round Nr
aesBlockCall(aes, method, inp) ==
    LET round == IF method = "encryptBlock" THEN 0 ELSE aes.Nr
    IN  [this |-> [aes EXCEPT !.roundKeys[round + 1] =
                                  rkAfterAddRoundKey(aes, inp, round)],
         out |-> Ok(IF method = "encryptBlock" THEN aesEncryptBlock(aes, inp)
                    ELSE aesDecryptBlock(aes, inp))]

\* BlowfishRaw.encryptBlock / decryptBlock: L and R packed from inp, the
\* words of encBlockWords / decBlockWords unpacked into out; P and S are read
bfBlockCall(bf, method, inp) ==
    LET w == IF method = "encryptBlock"
             THEN encBlockWords(bf, Sub(inp, 0, 4), Sub(inp, 4, 8))
             ELSE decBlockWords(bf, Sub(inp, 0, 4), Sub(inp, 4, 8))
    IN  [this |-> bf, out |-> Ok(w.L \o w.R)]

\* TwofishRaw.encryptBlock / decryptBlock: tfEncryptBlock / tfDecryptBlock
\* with this.session, of which sBox and sKey are read
tfBlockCall(sess, method, inp, room) ==
    LET r == IF method = "encryptBlock" THEN tfEncryptBlock(inp, room, sess)
             ELSE tfDecryptBlock(inp, room, sess)
    IN  [this |-> sess,
         out |-> IF r.ok THEN Ok(r.val.bytes) ELSE r]

\* ------------------------------------------------------------ engines driver
MaxCalls == 2

BlockMethods == {"encryptBlock", "decryptBlock"}
EngKeys == {PatternKey(16, <<0, 1>>), PatternKey(24, <<43, 126>>), PatternKey(32, <<0, 0>>)}
EngBlocks(n) == {PatternKey(n, <<0, 17>>), PatternKey(n, <<255, 0>>)}

\* the blocks a caller hands in: fixed ones, and the block the call before
\* wrote
EngInputs(n) ==
    EngBlocks(n) \cup
        (IF engLog # <<>> /\ Last(engLog).out.ok THEN {Last(engLog).out.val} ELSE {})

\* the schedule the engine in use holds
EngSchedule ==
    CASE pc = "AESRaw" -> [roundKeys |-> aesEngine.val.roundKeys]
      [] pc = "BlowfishRaw" -> [P |-> bfP, S |-> bfS]
      [] pc = "TwofishRaw" -> [sBox |-> tfSBox, sKey |-> tfSKey]
      [] OTHER -> <<>>

\* an engine whose constructor has returned
EngInit ==
    /\ PadIdle
    /\ TfIdle
    /\ ModeIdle
    /\ FacIdle
    /\ aesIn = <<>>
    /\ aesOut = NoResult
    /\ bfIn = <<>>
    /\ bfOut = NoResult
    /\ tfIn = <<>>
    /\ tfOut = NoResult
    /\ engLog = <<>>
    /\ NewIdle
    /\ LateIdle
    /\ \/ /\ pc = "AESRaw"
          /\ aesKey \in EngKeys
          /\ aesEngine = AESRaw(aesKey)
          /\ bfP = <<>> /\ bfS = <<>> /\ tfSBox = <<>> /\ tfSKey = <<>>
       \/ /\ pc = "BlowfishRaw"
          /\ \E seed \in 0..MaxSeed :
                /\ bfP = [i \in 1..18 |-> TableWord(seed, i + 1000)]
                /\ bfS = [b \in 1..4 |-> [i \in 1..256 |-> TableWord(seed, 256 * b + i)]]
          /\ aesKey = <<>> /\ aesEngine = NoResult /\ tfSBox = <<>> /\ tfSKey = <<>>
       \/ /\ pc = "TwofishRaw"
          /\ \E seed \in 0..MaxSeed :
                /\ tfSBox = [i \in 1..1024 |-> TableWord(seed, i)]
                /\ tfSKey = [i \in 1..40 |-> TableWord(seed, 2000 + 7 * i)]
          /\ aesKey = <<>> /\ aesEngine = NoResult /\ bfP = <<>> /\ bfS = <<>>
    /\ engBuilt = EngSchedule

EngOthers == <<padVars, tfVars, modeVars, facVars, newVars, lateVars, aesKey, aesIn, aesOut, bfIn, bfOut, tfIn, tfOut>>

\* raw.encryptBlock / raw.decryptBlock on an AESRaw
EngAesBlock ==
    /\ pc = "AESRaw"
    /\ Len(engLog) < MaxCalls
    /\ \E method \in BlockMethods, inp \in EngInputs(16) :
          \E call \in {aesBlockCall(aesEngine.val, method, inp)} :
             /\ aesEngine' = Ok(call.this)
             /\ engLog' = Append(engLog, [method |-> method, inp |-> inp, out |-> call.out])
    /\ UNCHANGED <<pc, engBuilt, bfP, bfS, tfSBox, tfSKey, EngOthers>>

\* raw.encryptBlock / raw.decryptBlock on a BlowfishRaw
EngBfBlock ==
    /\ pc = "BlowfishRaw"
    /\ Len(engLog) < MaxCalls
    /\ \E method \in BlockMethods, inp \in EngInputs(8) :
          \E call \in {bfBlockCall(BfThis, method, inp)} :
             /\ bfP' = call.this.P
             /\ bfS' = call.this.S
             /\ engLog' = Append(engLog, [method |-> method, inp |-> inp, out |-> call.out])
    /\ UNCHANGED <<pc, engBuilt, aesEngine, tfSBox, tfSKey, EngOthers>>

\* raw.encryptBlock / raw.decryptBlock on a TwofishRaw, out having room for
\* a block or a byte less
EngTfBlock ==
    /\ pc = "TwofishRaw"
    /\ Len(engLog) < MaxCalls
    /\ \E method \in BlockMethods, inp \in EngInputs(16), room \in Rooms :
          \E call \in {tfBlockCall(TfSessionOf, method, inp, room)} :
             /\ tfSBox' = call.this.sBox
             /\ tfSKey' = call.this.sKey
             /\ engLog' = Append(engLog, [method |-> method, inp |-> inp, out |-> call.out])
    /\ UNCHANGED <<pc, engBuilt, aesEngine, bfP, bfS, EngOthers>>

EngNext ==
    \/ EngAesBlock
    \/ EngBfBlock
    \/ EngTfBlock

SpecEngines == EngInit /\ [][EngNext]_vars

\* C21: key schedules are immutable after construction.  Once the constructor
\* of AESRaw, BlowfishRaw or TwofishRaw has returned, whatever encryptBlock
\* and decryptBlock calls follow, in any order and on any inputs, the round
\* keys, the P-array and S-boxes, and the Twofish sBox table and subkeys are
\* what the constructor left.
C21_ScheduleImmutable ==
    pc \in {"AESRaw", "BlowfishRaw", "TwofishRaw"} => EngSchedule = engBuilt

\* an AES engine has decrypted and then encrypted again what it decrypted,
\* both calls changing their block, and holds the round keys it was built with
C21_Witness ==
    /\ pc = "AESRaw"
    /\ Len(engLog) = 2
    /\ engLog[1].method = "decryptBlock"
    /\ engLog[2].method = "encryptBlock"
    /\ engLog[2].inp = engLog[1].out.val
    /\ engLog[1].out.val # engLog[1].inp
    /\ engLog[2].out.val = engLog[1].inp
    /\ aesEngine.val.roundKeys = engBuilt.roundKeys

\* ------------------------------------------------- BlowfishRaw construction
\* P0.slice() returning the array it was called on
sliceSame(name) == name

\* which array P0.slice(), S0c.slice() .. return: a new one, never the
\* constant itself
slice(name) == "new"

\* k of the constructor: the key, or for a key of less than 72 bytes the
\* 72 bytes ext[i] = k[i % k.length] (undefined, stored as 0, for no key)
bfExtKey(key) ==
    IF Len(key) >= 72 THEN key
    ELSE [i \in 1..72 |-> IF Len(key) = 0 THEN 0 ELSE key[((i - 1) % Len(key)) + 1]]

\* pack4k(j) on the bytes k
pack4k(k, j) == <<k[j + 1], k[j + 2], k[j + 3], k[j + 4]>>

\* the first loop: P[i] = xor32(P[i], pack4k(j)), j = 4 i
bfXorKey(P, k) == [i \in 1..18 |-> xor32(P[i], pack4k(k, 4 * (i - 1)))]

\* the names of this.S[0] .. this.S[3] in the log
SBoxNames == <<"S0", "S1", "S2", "S3">>

\* the fill loops encrypting the all-zero block each time
bfNextPairOfZero(bf, lc) == encBlockWords(bf, WZero, WZero)

\* [L, R] = this.encBlockWords(L, R) of the two fill loops, L and R being the
\* pair of the iteration before
bfNextPair(bf, lc) == encBlockWords(bf, lc.L, lc.R)

\* the module's constant tables once this.P / this.S hold P and S: a table
\* that is the engine's own array (no copy was made) holds what the engine's
\* holds
bfConstAfter(lc, P, tabS) ==
    [P |-> IF lc.P = "new" THEN bfConst.P ELSE P,
     S |-> IF lc.S = "new" THEN bfConst.S ELSE tabS]

\* the constructor up to the fill loops: the copies of the constants, k,
\* the XOR of the key into P, L = R = 0
BfConstructorBegin ==
    /\ pc = "new"
    /\ newClass = "BlowfishRaw"
    /\ bfP' = bfXorKey(bfConst.P, bfExtKey(newKey))
    /\ bfS' = bfConst.S
    /\ newLoc' = [L |-> WZero, R |-> WZero, i |-> 0, s |-> 0,
                  P |-> slice("P0"), S |-> slice("S0c")]
    /\ bfConst' = bfConstAfter(newLoc', bfP', bfS')
    /\ newLog' = <<>>
    /\ pc' = "fillP"
    /\ UNCHANGED <<newClass, newKey, newBuilt, tfMod>>

\* one iteration of for (i = 0; i < 18; i += 2)
BfFillP ==
    /\ pc = "fillP"
    /\ \E w \in {bfNextPair(BfThis, newLoc)} :
          /\ bfP' = [bfP EXCEPT ![newLoc.i + 1] = w.L, ![newLoc.i + 2] = w.R]
          /\ newLoc' = [newLoc EXCEPT !.L = w.L, !.R = w.R,
                                      !.i = IF newLoc.i + 2 < 18 THEN newLoc.i + 2 ELSE 0]
          /\ newLog' = Append(newLog, [box |-> "P", at |-> newLoc.i,
                                       inp |-> <<newLoc.L, newLoc.R>>,
                                       out |-> <<w.L, w.R>>])
    /\ bfS' = bfS
    /\ bfConst' = bfConstAfter(newLoc, bfP', bfS')
    /\ pc' = IF newLoc.i + 2 < 18 THEN "fillP" ELSE "fillS"
    /\ UNCHANGED <<newClass, newKey, newBuilt, tfMod>>

\* one iteration of for (s = 0; s < 4; s++) for (i = 0; i < 256; i += 2);
\* the constructor returns after the last
BfFillS ==
    /\ pc = "fillS"
    /\ \E w \in {bfNextPair(BfThis, newLoc)} :
          /\ bfS' = [bfS EXCEPT ![newLoc.s + 1][newLoc.i + 1] = w.L,
                                ![newLoc.s + 1][newLoc.i + 2] = w.R]
          /\ newLoc' = [newLoc EXCEPT !.L = w.L, !.R = w.R,
                                      !.i = IF newLoc.i + 2 < 256 THEN newLoc.i + 2 ELSE 0,
                                      !.s = IF newLoc.i + 2 < 256 THEN newLoc.s
                                            ELSE newLoc.s + 1]
          /\ newLog' = Append(newLog, [box |-> SBoxNames[newLoc.s + 1], at |-> newLoc.i,
                                       inp |-> <<newLoc.L, newLoc.R>>,
                                       out |-> <<w.L, w.R>>])
    /\ bfP' = bfP
    /\ bfConst' = bfConstAfter(newLoc, bfP', bfS')
    /\ pc' = IF newLoc'.s < 4 THEN "fillS" ELSE "built"
    /\ newBuilt' = IF newLoc'.s < 4 THEN newBuilt
                   ELSE Append(newBuilt, [key |-> newKey,
                                          schedule |-> [P |-> bfP', S |-> bfS']])
    /\ UNCHANGED <<newClass, newKey, tfMod>>

\* ---------------------------------------------------- TwofishRaw construction
\* getSubKeyWord leaving subKeyWord[3] as it finds it
getSubKeyWordThreeStores(md, sel, k0, k1, k2, k3, B) ==
    [subKeyWord |-> <<At(md.MDS[1], Xor(At(md.P0, B[1]), k0[4])),
                      At(md.MDS[2], Xor(At(md.P0, B[2]), k0[3])),
                      At(md.MDS[3], Xor(At(md.P1, B[3]), k0[2])),
                      md.subKeyWord[4]>>,
     written |-> {0, 1, 2}]

\* getSubKeyWord(k64Cnt, k0, k1, k2, k3, B0, B1, B2, B3), sel being
\* k64Cnt & 3: the cases 0, 3 and 2 fall through into the one that stores
\* subKeyWord[0] .. subKeyWord[3] and returns.  md is the module's state; the
\* result is subKeyWord as the call leaves it and the indices it has stored.
getSubKeyWord(md, sel, k0, k1, k2, k3, B) ==
    LET Ba == IF sel = 0
              THEN <<Xor(At(md.P1, B[1]), k3[4]), Xor(At(md.P0, B[2]), k3[3]),
                     Xor(At(md.P0, B[3]), k3[2]), Xor(At(md.P1, B[4]), k3[1])>>
              ELSE B
        Bb == IF sel \in {0, 3}
              THEN <<Xor(At(md.P1, Ba[1]), k2[4]), Xor(At(md.P1, Ba[2]), k2[3]),
                     Xor(At(md.P0, Ba[3]), k2[2]), Xor(At(md.P0, Ba[4]), k2[1])>>
              ELSE Ba
        Bc == IF sel \in {0, 3, 2}
              THEN <<Xor(At(md.P0, Bb[1]), k1[4]), Xor(At(md.P1, Bb[2]), k1[3]),
                     Xor(At(md.P0, Bb[3]), k1[2]), Xor(At(md.P1, Bb[4]), k1[1])>>
              ELSE Bb
    IN  [subKeyWord |-> <<At(md.MDS[1], Xor(At(md.P0, Bc[1]), k0[4])),
                          At(md.MDS[2], Xor(At(md.P0, Bc[2]), k0[3])),
                          At(md.MDS[3], Xor(At(md.P1, Bc[3]), k0[2])),
                          At(md.MDS[4], Xor(At(md.P1, Bc[4]), k0[1]))>>,
         written |-> {0, 1, 2, 3}]

\* subKeyWord[0] ^ subKeyWord[1] ^ subKeyWord[2] ^ subKeyWord[3]
XorOfSubKeyWord(w) == WXor(WXor(w[1], w[2]), WXor(w[3], w[4]))

\* (B << 8) | (B >>> 24)
rol8(x) == <<x[2], x[3], x[4], x[1]>>

\* makeSession up to the subkey loop: the key normalisation, the key words
\* and the S-box key words stored into the new sBox
TfMakeSessionBegin ==
    /\ pc = "new"
    /\ newClass = "TwofishRaw"
    /\ \E m \in {makeSession(newKey)} :
          /\ newLoc' = [sel |-> m.sel, k |-> m.kWords, i |-> 0]
          /\ tfSBox' = m.sBoxKeys \o [n \in 1..1020 |-> WZero]
    /\ tfSKey' = [n \in 1..40 |-> WZero]
    /\ newLog' = <<>>
    /\ pc' = "subKeys"
    /\ UNCHANGED <<newClass, newKey, newBuilt, bfConst, tfMod>>

\* one iteration of for (i = 0, q = 0, j = 0; i < SUBKEY_CNT / 2; i++, j += 2),
\* q being 2 i * SK_STEP at its start; after the last one k0 .. k3 are read
\* back from sBox[0 .. 3]
TfSubKeys ==
    /\ pc = "subKeys"
    /\ LET i == newLoc.i
           k == newLoc.k
       IN  \E ga \in {getSubKeyWord(tfMod, newLoc.sel, k[0], k[2], k[4], k[6],
                                    <<2 * i, 2 * i, 2 * i, 2 * i>>)} :
           \E gb \in {getSubKeyWord([tfMod EXCEPT !.subKeyWord = ga.subKeyWord],
                                    newLoc.sel, k[1], k[3], k[5], k[7],
                                    <<2 * i + 1, 2 * i + 1, 2 * i + 1, 2 * i + 1>>)} :
             LET A == XorOfSubKeyWord(ga.subKeyWord)
                 B == rol8(XorOfSubKeyWord(gb.subKeyWord))
             IN  /\ tfSKey' = [tfSKey EXCEPT ![2 * i + 1] = add32(A, B),
                                             ![2 * i + 2] =
                                                 rol1(rol8(add32(add32(A, B), B)))]
                 /\ tfMod' = [tfMod EXCEPT !.subKeyWord = gb.subKeyWord]
                 /\ newLog' = newLog \o
                        <<[written |-> ga.written, read |-> {0, 1, 2, 3}],
                          [written |-> gb.written, read |-> {0, 1, 2, 3}]>>
    /\ newLoc' = IF newLoc.i + 1 < 20 THEN [newLoc EXCEPT !.i = newLoc.i + 1]
                 ELSE [sel |-> newLoc.sel,
                       k |-> [n \in 0..3 |-> tfSBox[n + 1]],
                       i |-> 0]
    /\ pc' = IF newLoc.i + 1 < 20 THEN "subKeys" ELSE "sBox"
    /\ UNCHANGED <<newClass, newKey, newBuilt, bfConst, tfSBox>>

\* one iteration of for (i = 0, j = 0; i < 256; i++, j += 2); makeSession
\* returns after the last
TfSBoxFill ==
    /\ pc = "sBox"
    /\ LET i == newLoc.i
           k == newLoc.k
       IN  \E g \in {getSubKeyWord(tfMod, newLoc.sel, k[0], k[1], k[2], k[3],
                                   <<i, i, i, i>>)} :
             /\ tfSBox' = [tfSBox EXCEPT ![2 * i + 1] = g.subKeyWord[1],
                                         ![2 * i + 2] = g.subKeyWord[2],
                                         ![512 + 2 * i + 1] = g.subKeyWord[3],
                                         ![512 + 2 * i + 2] = g.subKeyWord[4]]
             /\ tfMod' = [tfMod EXCEPT !.subKeyWord = g.subKeyWord]
             /\ newLog' = Append(newLog, [written |-> g.written, read |-> {0, 1, 2, 3}])
    /\ newLoc' = [newLoc EXCEPT !.i = newLoc.i + 1]
    /\ pc' = IF newLoc.i + 1 < 256 THEN "sBox" ELSE "built"
    /\ newBuilt' = IF newLoc.i + 1 < 256 THEN newBuilt
                   ELSE Append(newBuilt, [key |-> newKey,
                                          schedule |-> [sBox |-> tfSBox', sKey |-> tfSKey]])
    /\ UNCHANGED <<newClass, newKey, bfConst, tfSKey>>

\* ------------------------------------------------------ construction driver
MaxEngines == 2

\* keys: shorter than a word, not a multiple of 4, and longer than 72 bytes
BfNewKeys == {PatternKey(5, <<1, 35>>), PatternKey(73, <<200, 7>>)}
\* keys: of 16 bytes, of 5 (extended to 8) and of 33 (cut to 32)
TfNewKeys == {PatternKey(16, <<1, 35>>), PatternKey(5, <<255, 3>>), PatternKey(33, <<9, 5>>)}
NewKeys(class) == IF class = "BlowfishRaw" THEN BfNewKeys ELSE TfNewKeys

\* the tables of utils/constants.ts as the program starts
BfConstants ==
    [P |-> [i \in 1..18 |-> TableWord(1, i + 1000)],
     S |-> [b \in 1..4 |-> [i \in 1..256 |-> TableWord(1, 256 * b + i)]]]

\* Twofish's module as the program starts: subKeyWord = new Uint32Array(4),
\* and the tables P0, P1, MDS0 .. MDS3 of utils/constants.ts
TfModule ==
    [subKeyWord |-> <<WZero, WZero, WZero, WZero>>,
     P0 |-> [i \in 1..256 |-> S[((i * 7) % 256) + 1]],
     P1 |-> [i \in 1..256 |-> Si[((i * 5 + 3) % 256) + 1]],
     MDS |-> [t \in 1..4 |-> [i \in 1..256 |-> TableWord(t, 3000 + i)]]]

NewInit ==
    /\ pc = "new"
    /\ PadIdle
    /\ TfIdle
    /\ ModeIdle
    /\ AesIdle
    /\ FacIdle
    /\ BfIdle
    /\ TfbIdle
    /\ EngIdle
    /\ LateIdle
    /\ newClass \in {"BlowfishRaw", "TwofishRaw"}
    /\ newKey \in NewKeys(newClass)
    /\ newLoc = <<>>
    /\ newLog = <<>>
    /\ newBuilt = <<>>
    /\ bfConst = IF newClass = "BlowfishRaw" THEN BfConstants ELSE <<>>
    /\ tfMod = IF newClass = "TwofishRaw" THEN TfModule ELSE <<>>

NewOthers ==
    <<padVars, tfVars, modeVars, aesVars, facVars, engVars, lateVars, bfIn, bfOut, tfIn, tfOut>>

\* the program goes on to construct another engine of the class
NewAgain ==
    /\ pc = "built"
    /\ Len(newBuilt) < MaxEngines
    /\ newKey' \in NewKeys(newClass)
    /\ pc' = "new"
    /\ UNCHANGED <<newClass, newLoc, newLog, newBuilt, bfConst, tfMod,
                   bfP, bfS, tfSBox, tfSKey, NewOthers>>

NewNext ==
    \/ BfConstructorBegin /\ UNCHANGED <<tfSBox, tfSKey, NewOthers>>
    \/ BfFillP /\ UNCHANGED <<tfSBox, tfSKey, NewOthers>>
    \/ BfFillS /\ UNCHANGED <<tfSBox, tfSKey, NewOthers>>
    \/ TfMakeSessionBegin /\ UNCHANGED <<bfP, bfS, NewOthers>>
    \/ TfSubKeys /\ UNCHANGED <<bfP, bfS, NewOthers>>
    \/ TfSBoxFill /\ UNCHANGED <<bfP, bfS, NewOthers>>
    \/ NewAgain

SpecNew == NewInit /\ [][NewNext]_vars

\* where encryption number n (0-based) of the key schedule stores its pair:
\* P[0..17] first, then S0, S1, S2, S3
StoreTarget(n) ==
    IF n < 9 THEN [box |-> "P", at |-> 2 * n]
    ELSE [box |-> SBoxNames[((n - 9) \div 128) + 1], at |-> 2 * ((n - 9) % 128)]

\* one step of the Blowfish constructor as C24 has it
C24_Step ==
    /\ (pc = "new" /\ pc' # "new") =>
          /\ bfP' = [i \in 1..18 |->
                       WXor(bfConst.P[i],
                            [j \in 1..4 |->
                                newKey[((4 * (i - 1) + j - 1) % Len(newKey)) + 1]])]
          /\ bfS' = bfConst.S
          /\ newLog' = <<>>
    /\ pc \in {"fillP", "fillS"} =>
          LET n == Len(newLog)
              e == newLog'[n + 1]
          IN  /\ Len(newLog') = n + 1
              /\ e.inp = IF n = 0 THEN <<WZero, WZero>> ELSE newLog[n].out
              /\ \E w \in {encBlockWords(BfThis, e.inp[1], e.inp[2])} :
                    e.out = <<w.L, w.R>>
              /\ [box |-> e.box, at |-> e.at] = StoreTarget(n)
              /\ \A i \in 1..18 :
                    bfP'[i] = IF e.box = "P" /\ i = e.at + 1 THEN e.out[1]
                              ELSE IF e.box = "P" /\ i = e.at + 2 THEN e.out[2]
                              ELSE bfP[i]
              /\ \A b \in 1..4 : \A i \in 1..256 :
                    bfS'[b][i] = IF e.box = SBoxNames[b] /\ i = e.at + 1 THEN e.out[1]
                                 ELSE IF e.box = SBoxNames[b] /\ i = e.at + 2 THEN e.out[2]
                                 ELSE bfS[b][i]
              /\ (pc' = "built") <=> (n + 1 = 521)
              /\ pc' = "built" =>
                    Cardinality({<<newLog'[k].box, newLog'[k].at>> : k \in 1..521})
                        = 521

\* C24: Blowfish key schedule order.  The constructor XORs the cyclically
\* repeated key bytes into P[0..17] and then performs exactly 9 + 4 * 128 =
\* 521 chained encryptions, the first of the all-zero block and each other
\* one of the output before it, every one with P and S as the earlier stores
\* left them; output n goes into P[2n], P[2n+1] for n < 9 and then into S0,
\* S1, S2, S3 in that order, so that at the end each of the 18 + 1024 entries
\* has been overwritten exactly once.
C24_BlowfishKeySchedule == [][newClass = "BlowfishRaw" => C24_Step]_vars

\* the constructor has returned for a 5-byte key: 521 stores, the last one
\* into S3[254], S3[255], and the tables differ from the constants throughout
C24_Witness ==
    /\ pc = "built"
    /\ newClass = "BlowfishRaw"
    /\ Len(newBuilt) = 1
    /\ Len(newKey) = 5
    /\ Len(newLog) = 521
    /\ newLog[521].box = "S3"
    /\ newLog[521].at = 254
    /\ bfS[4][256] = newLog[521].out[2]
    /\ \A i \in 1..18 : bfP[i] # bfConst.P[i]
    /\ \A i \in 1..256 : bfS[1][i] # bfConst.S[1][i]

\* C27: engine construction is a function of the key alone.  The schedule
\* BlowfishRaw or TwofishRaw builds for a key is the one an earlier engine
\* got for that key, whatever was constructed in between: the constant tables
\* of the module are never written (BlowfishRaw fills copies of P and S),
\* and every getSubKeyWord call stores subKeyWord[0..3] before they are read.
C27_ConstructionDeterministic ==
    /\ newClass = "BlowfishRaw" => bfConst = BfConstants
    /\ newClass = "TwofishRaw" =>
          /\ tfMod.P0 = TfModule.P0 /\ tfMod.P1 = TfModule.P1 /\ tfMod.MDS = TfModule.MDS
          /\ \A n \in 1..Len(newLog) : newLog[n].read \subseteq newLog[n].written
    /\ \A a \in 1..Len(newBuilt) : \A b \in 1..Len(newBuilt) :
          newBuilt[a].key = newBuilt[b].key => newBuilt[a].schedule = newBuilt[b].schedule

\* a second BlowfishRaw has been built for the key of the first, with the
\* schedule of the first, which is not what the module's constants hold
C27_Witness ==
    /\ pc = "built"
    /\ newClass = "BlowfishRaw"
    /\ Len(newBuilt) = 2
    /\ newBuilt[1].key = newBuilt[2].key
    /\ newBuilt[2].schedule = [P |-> bfP, S |-> bfS]
    /\ newBuilt[1].schedule = newBuilt[2].schedule
    /\ bfP # bfConst.P
    /\ bfS # bfConst.S

\* a second TwofishRaw has been built for the key of the first while
\* subKeyWord held what the first construction left in it
C27_WitnessTwofish ==
    /\ pc = "built"
    /\ newClass = "TwofishRaw"
    /\ Len(newBuilt) = 2
    /\ newBuilt[1].key = newBuilt[2].key
    /\ newBuilt[1].schedule = newBuilt[2].schedule
    /\ tfMod.subKeyWord # TfModule.subKeyWord

\* ------------------------------------------ the stateful mode objects (aes-js port)
\* An object is the record of its fields: name, and by class _lastCipherblock,
\* _shiftRegister and segmentSize, _lastPrecipher and _lastPrecipherIndex,
\* _counter, _remainingCounter and _remainingCounterIndex. this._aes is the
\* engine c; its encrypt copies the block and returns a new array.

\* new ModeOfOperationCBC(key, iv)
ModeOfOperationCBC(ivBytes) ==
    IF Len(ivBytes) # 16
    THEN Throw("invalid initialation vector size (must be 16 bytes)")
    ELSE Ok([name |-> "cbc", _lastCipherblock |-> ivBytes])

\* new ModeOfOperationCFB(key, iv, segmentSize)
ModeOfOperationCFB(ivBytes, segSize) ==
    IF Len(ivBytes) # 16
    THEN Throw("invalid initialation vector size (must be 16 size)")
    ELSE IF segSize < 1 \/ segSize > 16
         THEN Throw("invalid segmentSize")
         ELSE Ok([name |-> "cfb", _shiftRegister |-> ivBytes, segmentSize |-> segSize])

\* new ModeOfOperationOFB(key, iv)
ModeOfOperationOFB(ivBytes) ==
    IF Len(ivBytes) # 16
    THEN Throw("invalid initialation vector size (must be 16 bytes)")
    ELSE Ok([name |-> "ofb", _lastPrecipher |-> ivBytes, _lastPrecipherIndex |-> 16])

\* new ModeOfOperationCTR(key, bytes): new Counter(bytes) is setBytes(bytes)
ModeOfOperationCTR(bytes) ==
    IF Len(bytes) # 16
    THEN Throw("invalid counter bytes size (must be 16 bytes)")
    ELSE Ok([name |-> "ctr", _counter |-> bytes, _remainingCounter |-> <<>>,
             _remainingCounterIndex |-> 16])

\* out.set(enc, i); this._lastCipherblock = enc
CBC_encryptStore(st, enc) ==
    [this |-> [st.this EXCEPT !._lastCipherblock = enc],
     out |-> SetAt(st.out, st.i, enc),
     i |-> st.i + 16]

\* the body of the loop of ModeOfOperationCBC.encrypt at offset st.i
CBC_encryptIter(c, p, st) ==
    CBC_encryptStore(st,
        EncryptBlock(c, XorSeq(Sub(p, st.i, st.i + 16), st.this._lastCipherblock)))

\* this._shiftRegister.copyWithin(0, segmentSize, 16), then
\* this._shiftRegister.set(enc.slice(i, i + segmentSize), 16 - segmentSize)
CFB_encryptShift(st, enc) ==
    [this |-> [st.this EXCEPT !._shiftRegister =
                    Sub(st.this._shiftRegister, st.this.segmentSize, 16)
                        \o Sub(enc, st.i, st.i + st.this.segmentSize)],
     out |-> enc,
     i |-> st.i + st.this.segmentSize]

\* enc[i + j] ^= xorSegment[j] for the bytes of the segment
CFB_encryptXor(st, xorSegment) ==
    CFB_encryptShift(st,
        [k \in 1..Len(st.out) |->
            IF k > st.i /\ k <= st.i + st.this.segmentSize
            THEN Xor(st.out[k], xorSegment[k - st.i])
            ELSE st.out[k]])

\* the body of the loop of ModeOfOperationCFB.encrypt at offset st.i
CFB_encryptIter(c, p, st) ==
    CFB_encryptXor(st, EncryptBlock(c, st.this._shiftRegister))

\* encrypted[i] ^= this._lastPrecipher[this._lastPrecipherIndex++]
OFB_encryptXor(st, pre, idx) ==
    [this |-> [st.this EXCEPT !._lastPrecipher = pre, !._lastPrecipherIndex = idx + 1],
     out |-> [st.out EXCEPT ![st.i + 1] = Xor(st.out[st.i + 1], pre[idx + 1])],
     i |-> st.i + 1]

\* the body of the loop of ModeOfOperationOFB.encrypt at offset st.i
OFB_encryptIter(c, p, st) ==
    IF st.this._lastPrecipherIndex = 16
    THEN OFB_encryptXor(st, EncryptBlock(c, st.this._lastPrecipher), 0)
    ELSE OFB_encryptXor(st, st.this._lastPrecipher, st.this._lastPrecipherIndex)

\* out[i] ^= this._remainingCounter[this._remainingCounterIndex++]
CTR_encryptXor(st, ctr, rem, idx) ==
    [this |-> [st.this EXCEPT !._counter = ctr, !._remainingCounter = rem,
                              !._remainingCounterIndex = idx + 1],
     out |-> [st.out EXCEPT ![st.i + 1] = Xor(st.out[st.i + 1], rem[idx + 1])],
     i |-> st.i + 1]

\* the body of the loop of ModeOfOperationCTR.encrypt at offset st.i
CTR_encryptIter(c, p, st) ==
    IF st.this._remainingCounterIndex = 16
    THEN CTR_encryptXor(st, CounterIncrement(st.this._counter),
                        EncryptBlock(c, st.this._counter), 0)
    ELSE CTR_encryptXor(st, st.this._counter, st.this._remainingCounter,
                        st.this._remainingCounterIndex)

encryptIter(c, p, st) ==
    CASE st.this.name = "cbc" -> CBC_encryptIter(c, p, st)
      [] st.this.name = "cfb" -> CFB_encryptIter(c, p, st)
      [] st.this.name = "ofb" -> OFB_encryptIter(c, p, st)
      [] st.this.name = "ctr" -> CTR_encryptIter(c, p, st)

RECURSIVE encryptLoop(_, _, _)
\* the iteration is complete: on to the next offset
encryptLoopNext(c, p, st) ==
    IF Len(st.out) = Len(p) /\ DOMAIN st.this # {} THEN encryptLoop(c, p, st) ELSE st

\* for (let i = ...; i < p.length; i += ...) of the encrypt of the class
encryptLoop(c, p, st) ==
    IF st.i >= Len(p) THEN st ELSE encryptLoopNext(c, p, encryptIter(c, p, st))

\* ModeOfOperationCBC.encrypt(plaintext): the object afterwards and the result
CBC_encrypt(c, this, p) ==
    IF Len(p) % 16 # 0
    THEN [this |-> this,
          ret |-> Throw("invalid plaintext size (must be multiple of 16 bytes)")]
    ELSE LET st == encryptLoop(c, p, [this |-> this, out |-> Run(Len(p), 0), i |-> 0])
         IN  [this |-> st.this, ret |-> Ok(st.out)]

\* ModeOfOperationCFB.encrypt(plaintext)
CFB_encrypt(c, this, p) ==
    IF Len(p) % this.segmentSize # 0
    THEN [this |-> this,
          ret |-> Throw("invalid plaintext size (must be segmentSize bytes)")]
    ELSE LET st == encryptLoop(c, p, [this |-> this, out |-> cloneBytes(p), i |-> 0])
         IN  [this |-> st.this, ret |-> Ok(st.out)]

\* ModeOfOperationOFB.encrypt with the keystream position starting over at
\* every call
OFB_encryptRestart(c, this, p) ==
    LET st == encryptLoop(c, p, [this |-> [this EXCEPT !._lastPrecipherIndex = 16],
                                 out |-> cloneBytes(p), i |-> 0])
    IN  [this |-> st.this, ret |-> Ok(st.out)]

\* ModeOfOperationOFB.encrypt(plaintext)
OFB_encrypt(c, this, p) ==
    LET st == encryptLoop(c, p, [this |-> this, out |-> cloneBytes(p), i |-> 0])
    IN  [this |-> st.this, ret |-> Ok(st.out)]

\* ModeOfOperationCTR.encrypt(plaintext)
CTR_encrypt(c, this, p) ==
    LET st == encryptLoop(c, p, [this |-> this, out |-> cloneBytes(p), i |-> 0])
    IN  [this |-> st.this, ret |-> Ok(st.out)]

\* ---- driver: one object fed A then B, a fresh object fed A || B
MaxStreamLen == 33

StreamClasses == {"cbc", "cfb", "ofb", "ctr"}

\* the engines: AES-128 under one key, and a 16-byte test cipher
StreamEngines ==
    {AESRaw(PatternKey(16, <<1, 35>>)).val, TestCipher(16, PatternKey(16, <<7, 90>>))}

\* IVs and counters: at the all-0xFF boundary, a plain one, one of 15 bytes
\* (AES runs on the first)
StreamIVs(c) ==
    IF c.kind = "AES" THEN {Run(16, 255)}
    ELSE {Run(16, 255), PatternKey(16, <<1, 1>>), Run(15, 9)}

\* segment sizes: 1, one that does not divide 16, 16, and one out of range
\* (AES runs on 16)
StreamSegmentSizes(c) == IF c.kind = "AES" THEN {16} ELSE {1, 3, 16, 17}

\* AES runs on one block and a byte, the test cipher on the lengths around
\* one and two blocks
StreamLens(c) ==
    IF c.kind = "AES" THEN {17} ELSE {0, 1, 15, 16, 17, 32, MaxStreamLen}

newModeOfOperation(a) ==
    CASE a.name = "cbc" -> ModeOfOperationCBC(a.iv)
      [] a.name = "cfb" -> ModeOfOperationCFB(a.iv, a.segmentSize)
      [] a.name = "ofb" -> ModeOfOperationOFB(a.iv)
      [] a.name = "ctr" -> ModeOfOperationCTR(a.iv)

encryptCall(c, this, p) ==
    CASE this.name = "cbc" -> CBC_encrypt(c, this, p)
      [] this.name = "cfb" -> CFB_encrypt(c, this, p)
      [] this.name = "ofb" -> OFB_encrypt(c, this, p)
      [] this.name = "ctr" -> CTR_encrypt(c, this, p)

\* the parts A and B of the data at the split
StreamPart(a, k) ==
    IF k = 1 THEN Sub(a.data, 0, a.split) ELSE Sub(a.data, a.split, Len(a.data))

StrInit ==
    /\ pc = "new"
    /\ PadIdle
    /\ TfIdle
    /\ ModeIdle
    /\ AesIdle
    /\ FacIdle
    /\ BfIdle
    /\ TfbIdle
    /\ EngIdle
    /\ NewIdle
    /\ MsgIdle
    /\ RpcIdle
    /\ \E name \in StreamClasses, c \in StreamEngines : \E v \in StreamIVs(c) :
        \E seg \in IF name = "cfb" THEN StreamSegmentSizes(c) ELSE {1} :
        \E n \in StreamLens(c) :
        \E split \in 0..n :
            strArgs = [name |-> name, cipher |-> c, iv |-> v, segmentSize |-> seg,
                       data |-> PatternKey(n, <<3, 41>>), split |-> split]
    /\ strObj = NoResult
    /\ strTrace = <<>>
    /\ strRets = <<>>
    /\ strWhole = NoResult

StrOthers ==
    <<padVars, tfVars, modeVars, aesVars, facVars, bfVars, tfbVars, engVars, newVars,
      msgVars, rpcVars>>

\* new ModeOfOperation.<name>(key, iv ...)
StrNew ==
    /\ pc = "new"
    /\ strObj' = newModeOfOperation(strArgs)
    /\ strTrace' = IF strObj'.ok THEN <<strObj'.val>> ELSE <<>>
    /\ pc' = IF strObj'.ok THEN "constructed" ELSE "failed"
    /\ UNCHANGED <<strArgs, strRets, strWhole, StrOthers>>

\* obj.encrypt(A), then obj.encrypt(B)
StrEncryptPart ==
    /\ pc = "constructed"
    /\ \E r \in {encryptCall(strArgs.cipher, strObj.val,
                             StreamPart(strArgs, Len(strRets) + 1))} :
        /\ strObj' = Ok(r.this)
        /\ strTrace' = Append(strTrace, r.this)
        /\ strRets' = Append(strRets, r.ret)
    /\ pc' = IF Len(strRets) = 1 THEN "parts" ELSE "constructed"
    /\ UNCHANGED <<strArgs, strWhole, StrOthers>>

\* fresh.encrypt(A || B) on a fresh object of the same key and iv / counter
StrEncryptWhole ==
    /\ pc = "parts"
    /\ \E r \in {encryptCall(strArgs.cipher, newModeOfOperation(strArgs).val,
                             strArgs.data)} :
        strWhole' = r.ret
    /\ pc' = "done"
    /\ UNCHANGED <<strArgs, strObj, strTrace, strRets, StrOthers>>

StrNext == StrNew \/ StrEncryptPart \/ StrEncryptWhole

SpecStream == StrInit /\ [][StrNext]_vars

\* the unit the class consumes per iteration of its loop
StreamUnit(a) ==
    CASE a.name = "cbc" -> 16
      [] a.name = "cfb" -> a.segmentSize
      [] OTHER -> 1

\* C26: on one object, encrypt(A) followed by encrypt(B) returns the bytes of
\* one encrypt(A || B) on a fresh object of the same key and iv / counter, for
\* every split at a block boundary (cbc), a segment boundary (cfb) or any
\* byte position (ofb, ctr): A is accepted, B is accepted exactly when
\* A || B is, and then the two results joined are the result of the whole.
\* A call that fails its length check leaves the fields of the object as
\* they were.
C26_StreamingEquivalence ==
    /\ pc = "done" /\ strArgs.split % StreamUnit(strArgs) = 0 =>
        /\ strRets[1].ok
        /\ strRets[2].ok <=> strWhole.ok
        /\ strWhole.ok => strRets[1].val \o strRets[2].val = strWhole.val
    /\ \A k \in 1..Len(strRets) : ~strRets[k].ok => strTrace[k + 1] = strTrace[k]

\* an ofb object fed 17 or more bytes in two parts that split inside a block
C26_Witness ==
    /\ pc = "done"
    /\ strArgs.name = "ofb"
    /\ strArgs.split % 16 # 0
    /\ strArgs.split > 16
    /\ Len(strArgs.data) > strArgs.split
    /\ strWhole.ok
    /\ strRets[1].val \o strRets[2].val = strWhole.val
    /\ strWhole.val # strArgs.data

\* a cbc object whose first call failed its length check and whose second
\* call then ran from the iv
C26_WitnessFailed ==
    /\ pc = "done"
    /\ strArgs.name = "cbc"
    /\ ~strRets[1].ok
    /\ strRets[2].ok
    /\ Len(strRets[2].val) = 16
    /\ strTrace[2] = strTrace[1]
    /\ strTrace[3] # strTrace[2]

\* ------------------------------------------------- the messaging application
\* An envelope is the record of its JSON fields. The bytes are abstract: pt
\* is the plaintext, drawn the random symmetric key and iv of the call; the
\* signature of a hash is the hash, and the ciphertext names its plaintext.

\* createEnvelope(opts): the fields returned
createEnvelope(pt, drawn) ==
    [v |-> 3,
     senderSigPubPem |-> "sender",
     iv_msg_b64 |-> drawn,
     ct_msg_b64 |-> <<drawn, pt>>,
     enc_symkey_b64 |-> drawn,
     hash_b64 |-> pt,
     sig_b64 |-> pt]

\* openEnvelope(env, ...): the plaintext, or the error of a failed check
openEnvelope(env) ==
    LET pt == env.ct_msg_b64[2]
        sigValid == env.sig_b64 = env.hash_b64
        hashesMatch == env.hash_b64 = pt
    IN  IF ~sigValid THEN Throw("Falha na verificacao da assinatura.")
        ELSE IF ~hashesMatch
             THEN Throw("Hash nao corresponde (mensagem alterada ou corrompida)")
             ELSE Ok(pt)

\* `${Date.now()}-${random(4).toString("hex")}` as a number
FreshId(now, rnd) == 100 + 10 * now + rnd

\* (env as any)?.id ?? (env as any)?.hash ?? `${Date.now()}-${random(4)...}`
maybeIdOf(env, now, rnd) ==
    IF "id" \in DOMAIN env THEN env.id
    ELSE IF "hash" \in DOMAIN env THEN env.hash
         ELSE FreshId(now, rnd)

\* a frame from the server: a response carries id, a push carries event
Response(id, data) == [id |-> id, event |-> "", data |-> data]
Push(event, data) == [id |-> 0, event |-> event, data |-> data]

\* wsBroadcast(obj): wsSend to every client connected (there is one socket)
wsBroadcast(down, obj) == IF clients = {} THEN down ELSE Append(down, obj)

\* inbox.slice(since) and the reply of the list action
listReply(since) ==
    LET messages == Sub(inbox, since, Len(inbox))
    IN  [messages |-> messages, next |-> since + Len(messages)]

\* ---- driver: deliveries to the server, and one client of its WebSocket
MaxPosts == 3
MaxNow == 1
MaxRefresh == 1
RandomHex == {0, 1}

\* what is delivered: two envelopes as created, one with an id field added,
\* one with a hash field of the same value added, one with its hash altered
Created == {createEnvelope(pt, pt) : pt \in 1..2}

Delivered ==
    Created
    \cup {("id" :> 7) @@ createEnvelope(1, 1), ("hash" :> 7) @@ createEnvelope(2, 1)}
    \cup {[createEnvelope(1, 1) EXCEPT !.hash_b64 = 0]}

MsgInit ==
    /\ pc = "serving"
    /\ PadIdle
    /\ TfIdle
    /\ ModeIdle
    /\ AesIdle
    /\ FacIdle
    /\ BfIdle
    /\ TfbIdle
    /\ EngIdle
    /\ NewIdle
    /\ StrIdle
    /\ RpcIdle
    /\ inbox = <<>>
    /\ seenIds = {}
    /\ clients = {}
    /\ srvNow = 0
    /\ posts = <<>>
    /\ wsUp = <<>>
    /\ wsDown = <<>>
    /\ cliState = [ws |-> "none", connected |-> FALSE, pending |-> {}, cursor |-> 0,
                   seenIds |-> {}, shown |-> <<>>, genId |-> 1]
    /\ refreshes = 0

MsgOthers ==
    <<pc, padVars, tfVars, modeVars, aesVars, facVars, bfVars, tfbVars, engVars, newVars,
      strVars, rpcVars>>

\* Date.now() moves on
SrvTick ==
    /\ srvNow < MaxNow
    /\ srvNow' = srvNow + 1
    /\ UNCHANGED <<inbox, seenIds, clients, posts, wsUp, wsDown, cliState, refreshes,
                   MsgOthers>>

\* POST /message with env as its body, from readBody's return to the response
SrvPostMessage ==
    /\ Len(posts) < MaxPosts
    /\ \E env \in Delivered, rnd \in RandomHex :
        LET plaintext == openEnvelope(env)
            maybeId == maybeIdOf(env, srvNow, rnd)
            item == [id |-> maybeId, receivedAt |-> srvNow, plaintext |-> plaintext.val]
        IN  IF ~plaintext.ok
            THEN /\ posts' = Append(posts, [env |-> env, status |-> 400, receipt |-> 0,
                                            pushed |-> FALSE])
                 /\ UNCHANGED <<inbox, seenIds, wsDown>>
            ELSE IF maybeId \notin seenIds
                 THEN /\ seenIds' = seenIds \cup {maybeId}
                      /\ inbox' = Append(inbox, item)
                      /\ wsDown' = wsBroadcast(wsDown, Push("message", item))
                      /\ posts' = Append(posts, [env |-> env, status |-> 200,
                                                 receipt |-> maybeId, pushed |-> TRUE])
                 ELSE /\ posts' = Append(posts, [env |-> env, status |-> 200,
                                                 receipt |-> maybeId, pushed |-> FALSE])
                      /\ UNCHANGED <<inbox, seenIds, wsDown>>
    /\ UNCHANGED <<clients, srvNow, wsUp, cliState, refreshes, MsgOthers>>

\* connectWS() and the server's connection handler: clients.add(ws), hello
WsConnection ==
    /\ cliState.ws = "none"
    /\ clients' = clients \cup {"ws"}
    /\ wsDown' = Append(wsDown, Push("hello", <<>>))
    /\ cliState' = [cliState EXCEPT !.ws = "connecting"]
    /\ UNCHANGED <<inbox, seenIds, srvNow, posts, wsUp, refreshes, MsgOthers>>

\* rpc(action, params) while connected: the frame sent and the entry in pending
rpcSend(st, action, since) ==
    [up |-> [id |-> st.genId, action |-> action, since |-> since],
     state |-> [st EXCEPT !.pending = @ \cup {[id |-> st.genId, action |-> action]},
                          !.genId = @ + 1]]

\* the socket's open handler up to its first await: rpc("info")
CliOpen ==
    /\ cliState.ws = "connecting"
    /\ LET sent == rpcSend([cliState EXCEPT !.ws = "open", !.connected = TRUE], "info", 0)
       IN  /\ wsUp' = Append(wsUp, sent.up)
           /\ cliState' = sent.state
    /\ UNCHANGED <<inbox, seenIds, clients, srvNow, posts, wsDown, refreshes, MsgOthers>>

\* onRefresh() up to its await: rpc("list", { since: state.cursor })
CliRefresh ==
    /\ refreshes < MaxRefresh
    /\ cliState.connected
    /\ refreshes' = refreshes + 1
    /\ LET sent == rpcSend(cliState, "list", cliState.cursor)
       IN  /\ wsUp' = Append(wsUp, sent.up)
           /\ cliState' = sent.state
    /\ UNCHANGED <<inbox, seenIds, clients, srvNow, posts, wsDown, MsgOthers>>

\* the server's message handler on the next frame of the client
SrvMessage ==
    /\ wsUp # <<>>
    /\ LET msg == Head(wsUp)
       IN  wsDown' = Append(wsDown,
                IF msg.action = "info" THEN Response(msg.id, <<>>)
                ELSE Response(msg.id, listReply(msg.since)))
    /\ wsUp' = Tail(wsUp)
    /\ UNCHANGED <<inbox, seenIds, clients, srvNow, posts, cliState, refreshes, MsgOthers>>

\* the code after `await rpc("list", ...)`: render the new ones, move the cursor
afterList(st, list) ==
    LET newOnes == SelectSeq(list.messages, LAMBDA m : m.id \notin st.seenIds)
    IN  [st EXCEPT !.seenIds = @ \cup {newOnes[k].id : k \in DOMAIN newOnes},
                   !.shown = @ \o [k \in DOMAIN newOnes |-> newOnes[k].id],
                   !.cursor = list.next]

\* the push handler: event "message"
onPush(st, item) ==
    IF item.id \in st.seenIds THEN st
    ELSE [st EXCEPT !.seenIds = @ \cup {item.id},
                    !.shown = Append(@, item.id),
                    !.cursor = @ + 1]

\* the client's message handler on the next frame of the server, with the
\* continuation of the awaiting function when the frame resolves an rpc
CliMessage ==
    /\ cliState.ws = "open"
    /\ wsDown # <<>>
    /\ wsDown' = Tail(wsDown)
    /\ LET data == Head(wsDown)
           p == {q \in cliState.pending : q.id = data.id}
           settled == [cliState EXCEPT !.pending = @ \ p]
       IN  IF p # {}
           THEN IF \E q \in p : q.action = "info"
                THEN LET sent == rpcSend(settled, "list", settled.cursor)
                     IN  /\ wsUp' = Append(wsUp, sent.up)
                         /\ cliState' = sent.state
                ELSE /\ cliState' = afterList(settled, data.data)
                     /\ UNCHANGED wsUp
           ELSE /\ cliState' = IF data.event = "message"
                               THEN onPush(cliState, data.data)
                               ELSE cliState
                /\ UNCHANGED wsUp
    /\ UNCHANGED <<inbox, seenIds, clients, srvNow, posts, refreshes, MsgOthers>>

MsgNext ==
    SrvTick \/ SrvPostMessage \/ WsConnection \/ CliOpen \/ CliRefresh \/ SrvMessage
        \/ CliMessage

SpecInbox == MsgInit /\ [][MsgNext]_vars

\* the deliveries of env that added an inbox entry (and were broadcast)
PushedOf(env) == {k \in DOMAIN posts : posts[k].env = env /\ posts[k].pushed}

\* C28: an envelope of createEnvelope delivered two or more times to
\* POST /message results in at most one inbox entry and at most one
\* 'message' broadcast; no two inbox entries have the same id and every
\* inbox id is in seenIds.
C28_InboxDeduplicated ==
    /\ \A env \in Created : Cardinality(PushedOf(env)) <= 1
    /\ \A j, k \in DOMAIN inbox : inbox[j].id = inbox[k].id => j = k
    /\ \A k \in DOMAIN inbox : inbox[k].id \in seenIds

\* the part of C28 about the ids alone
C28_InboxIdsUnique ==
    /\ \A j, k \in DOMAIN inbox : inbox[j].id = inbox[k].id => j = k
    /\ \A k \in DOMAIN inbox : inbox[k].id \in seenIds

\* an envelope that carries an id is taken in once however often it comes
C28_WithIdDeduplicated ==
    \A env \in Delivered : "id" \in DOMAIN env => Cardinality(PushedOf(env)) <= 1

\* C29: whenever the client's cursor equals n, the client has recorded in
\* its seenIds every inbox message of the server at index < n.
C29_CursorNeverSkips ==
    cliState.ws = "open" =>
        \A k \in DOMAIN inbox : k <= cliState.cursor => inbox[k].id \in cliState.seenIds

\* nothing is in flight and a list from the cursor would return nothing:
\* then the client has recorded every inbox message
C29_QuiescentNoneMissed ==
    /\ cliState.ws = "open"
    /\ cliState.pending = {}
    /\ wsUp = <<>>
    /\ wsDown = <<>>
    /\ cliState.cursor >= Len(inbox)
    => \A k \in DOMAIN inbox : inbox[k].id \in cliState.seenIds

\* ------------------------------------------------------ the client's rpc
\* rpcState is the part of app.js's state that rpc uses: connected, the ids
\* in pending (an entry holds resolve, reject and the timer of its id), the
\* timers armed, and for each promise the calls of its resolve / reject so far.

\* rpc() while connected: genId(), ws.send, setTimeout, state.pending.set
rpcCalled(st) ==
    [st EXCEPT !.pending = @ \cup {st.genId},
               !.timers = @ \cup {st.genId},
               !.genId = @ + 1]

\* the timer's callback leaving the id in pending
onTimeoutKeepsPending(st, id) ==
    [st EXCEPT !.timers = @ \ {id},
               !.settled[id] = Append(@, "timeout")]

\* the timer's callback: state.pending.delete(id); reject(...)
onTimeout(st, id) ==
    [st EXCEPT !.timers = @ \ {id},
               !.pending = @ \ {id},
               !.settled[id] = Append(@, "timeout")]

\* the message handler on a frame with an id: clearTimeout, delete, settle;
\* a frame whose id is not pending falls through and changes nothing
onResponse(st, data) ==
    IF data.id # 0 /\ data.id \in st.pending
    THEN [st EXCEPT !.timers = @ \ {data.id},
                    !.pending = @ \ {data.id},
                    !.settled[data.id] = Append(@, "response")]
    ELSE st

\* the close handler: every pending entry has its timer cleared and is
\* rejected, then state.pending.clear()
onClose(st) ==
    [st EXCEPT !.connected = FALSE,
               !.timers = @ \ st.pending,
               !.settled = [id \in DOMAIN @ |->
                               IF id \in st.pending THEN Append(@[id], "close") ELSE @[id]],
               !.pending = {}]

\* ---- driver: calls, replies, timeouts and closes in any order
MaxRpcs == 3

RpcInit ==
    /\ pc = "rpc"
    /\ PadIdle
    /\ TfIdle
    /\ ModeIdle
    /\ AesIdle
    /\ FacIdle
    /\ BfIdle
    /\ TfbIdle
    /\ EngIdle
    /\ NewIdle
    /\ StrIdle
    /\ MsgIdle
    /\ rpcState = [connected |-> FALSE, pending |-> {}, timers |-> {}, genId |-> 1,
                   refused |-> 0, settled |-> [id \in 1..MaxRpcs |-> <<>>]]
    /\ rpcUp = <<>>
    /\ rpcDown = <<>>
    /\ rpcLast = [event |-> "boot", id |-> 0]

RpcOthers ==
    <<pc, padVars, tfVars, modeVars, aesVars, facVars, bfVars, tfbVars, engVars, newVars,
      strVars, msgVars>>

\* the rpc() calls made so far
RpcCalls == rpcState.genId - 1 + rpcState.refused

\* the socket opens: state.connected = true
RpcOpen ==
    /\ ~rpcState.connected
    /\ rpcLast.event \in {"boot", "close"}
    /\ rpcState' = [rpcState EXCEPT !.connected = TRUE]
    /\ rpcLast' = [event |-> "open", id |-> 0]
    /\ UNCHANGED <<rpcUp, rpcDown, RpcOthers>>

\* rpc(action, params): a rejected promise when not connected, else a request
RpcCall ==
    /\ RpcCalls < MaxRpcs
    /\ IF ~rpcState.connected
       THEN /\ rpcState' = [rpcState EXCEPT !.refused = @ + 1]
            /\ rpcLast' = [event |-> "refused", id |-> 0]
            /\ UNCHANGED rpcUp
       ELSE /\ rpcState' = rpcCalled(rpcState)
            /\ rpcUp' = Append(rpcUp, rpcState.genId)
            /\ rpcLast' = [event |-> "rpc", id |-> rpcState.genId]
    /\ UNCHANGED <<rpcDown, RpcOthers>>

\* the server answers the next request, with ok or with an error
RpcReply ==
    /\ rpcUp # <<>>
    /\ \E ok \in BOOLEAN : rpcDown' = Append(rpcDown, [id |-> Head(rpcUp), ok |-> ok])
    /\ rpcUp' = Tail(rpcUp)
    /\ UNCHANGED <<rpcState, rpcLast, RpcOthers>>

\* the message handler on the next frame
RpcOnMessage ==
    /\ rpcState.connected
    /\ rpcDown # <<>>
    /\ rpcState' = onResponse(rpcState, Head(rpcDown))
    /\ rpcDown' = Tail(rpcDown)
    /\ rpcLast' = [event |-> IF rpcState' = rpcState THEN "ignored" ELSE "response",
                   id |-> Head(rpcDown).id]
    /\ UNCHANGED <<rpcUp, RpcOthers>>

\* the timer of id fires
RpcTimeout(id) ==
    /\ id \in rpcState.timers
    /\ rpcState' = onTimeout(rpcState, id)
    /\ rpcLast' = [event |-> "timeout", id |-> id]
    /\ UNCHANGED <<rpcUp, rpcDown, RpcOthers>>

\* the socket closes, and what was in flight on it is gone
RpcClose ==
    /\ rpcState.connected
    /\ rpcState' = onClose(rpcState)
    /\ rpcUp' = <<>>
    /\ rpcDown' = <<>>
    /\ rpcLast' = [event |-> "close", id |-> 0]
    /\ UNCHANGED RpcOthers

RpcNext ==
    \/ RpcOpen
    \/ RpcCall
    \/ RpcReply
    \/ RpcOnMessage
    \/ \E id \in 1..MaxRpcs : RpcTimeout(id)
    \/ RpcClose

\* a timer armed and not cleared fires
SpecRpc ==
    RpcInit /\ [][RpcNext]_vars /\ \A id \in 1..MaxRpcs : WF_vars(RpcTimeout(id))

\* the promises rpc() has returned with an id
RpcIds == 1..(rpcState.genId - 1)

RpcSettlesOnce ==
    /\ \A id \in RpcIds :
        /\ Len(rpcState.settled[id]) <= 1
        /\ id \in rpcState.pending <=> rpcState.settled[id] = <<>>
        /\ id \in rpcState.timers <=> id \in rpcState.pending
    /\ rpcState.pending \subseteq RpcIds
    /\ rpcLast.event = "close" => rpcState.pending = {}
    /\ rpcLast.event = "ignored" => rpcLast.id \notin rpcState.pending

\* C30: every promise rpc() returns is settled exactly once, by its
\* response, its timeout or the close of the connection: never twice, and
\* eventually once. While it is unsettled its id is in pending and its timer
\* is armed; once settled its id is out of pending and its timer is cleared or
\* spent; a response for an id that timed out changes nothing; after a close
\* event pending is empty.
C30_RpcSettlesExactlyOnce ==
    /\ []RpcSettlesOnce
    /\ \A id \in 1..MaxRpcs : (id \in rpcState.pending) ~> (Len(rpcState.settled[id]) = 1)

\* a response has arrived for a promise that timed out, and was ignored,
\* while the other promises settled by a response and by the close
C30_Witness ==
    /\ rpcLast.event = "ignored"
    /\ rpcState.settled[rpcLast.id] = <<"timeout">>
    /\ \E id \in RpcIds : rpcState.settled[id] = <<"response">>
    /\ \E id \in RpcIds : rpcState.settled[id] = <<"close">>

====
